---- MODULE Spec2Model ----
(***************************************************************************)
(* Bottle ORM: transaction handle (transaction.rs), schema synchronizer    *)
(* and migrator (database.rs, migration.rs), filter binding and            *)
(* pagination (pagination.rs and the query builder contract), the          *)
(* Connection implementations and the derived row decoders                 *)
(* (derive_anyrow.rs, derive_enum.rs).                                     *)
(*                                                                         *)
(* The specifications share the module's variables:                        *)
(*   SpecTx     - clones of one Transaction handle calling the Connection  *)
(*                operations, commit and rollback concurrently;            *)
(*   SpecMig    - Migrator::register / Migrator::run against a database,   *)
(*                and a second run of the same migrator;                   *)
(*   SpecSync   - Database::sync_table against every bounded prior schema; *)
(*   SpecQB     - filter calls on a query builder, then the count query of *)
(*                Pagination::paginate;                                    *)
(*   SpecNew    - Pagination::new / Pagination::new_with_limit;            *)
(*   SpecPag    - Pagination::paginate / paginate_as over a table;         *)
(*   SpecRows   - fetch_one / fetch_optional / fetch_all and batch_insert  *)
(*                through a pool or a transaction;                         *)
(*   SpecDecode - FromAnyRow::from_any_row on one row;                     *)
(*   SpecTxFair - SpecTx with every caller's next step weakly fair;        *)
(*   SpecTypes  - Database::sync_table for one column of every Rust type   *)
(*                rust_type_to_sql maps;                                   *)
(*   SpecQuery  - joins, projection, ordering and filters on a query       *)
(*                builder, then both phases of Pagination::paginate;       *)
(*   SpecLimit  - a Pagination built by a constructor or from its fields,  *)
(*                Pagination::apply and paginate;                          *)
(*   SpecConn   - DatabaseBuilder::connect on a connection URL.            *)
(***************************************************************************)
EXTENDS Integers, Sequences, FiniteSets, TLC

VARIABLES
    \* ---- transaction.rs: Transaction { tx: Arc<Mutex<Option<sqlx::Transaction>>> }
    tx,            \* the Option inside the mutex: "Some" or "None"
    mutexOwner,    \* tokio Mutex: 0 when free, else the clone holding the guard
    mutexWaiters,  \* tokio Mutex: FIFO queue of clones suspended in lock().await
    pc,            \* per clone: position inside the current async call
    op,            \* per clone: the operation of the current / last call
    res,           \* per clone: result of the last call
    calls,         \* per clone: number of calls started
    sent,          \* per clone: the current / last call reached the backend
    closedAtCall,  \* per clone: the Option was None when the call was made
    finishedAtCall,\* per clone: a commit/rollback had completed when the call was made
    takes,         \* clones whose commit/rollback took the handle, in order
    finished,      \* clones whose backend commit/rollback has returned, in order
    \* ---- database.rs: Database { pool, driver } and the schema behind the pool
    driver,        \* Drivers::{Postgres, MySQL, SQLite}
    db,            \* per table: exists, columns, index names, foreign-key constraints
    contract,      \* the Model (table name, ColumnInfo list) given to sync_table
    log,           \* statements sent to the pool by the current / last operation
    dbBefore,      \* the schema when the current / last operation started
    results,       \* results of the sync_table calls made so far, in order
    \* ---- migration.rs: Migrator { db, tasks, fk_task } and the progress of run()
    tasks,         \* Vec<MigrationTask>: the model each create-table task is for
    fk_task,       \* Vec<MigrationTask>: the model each foreign-key task is for
    runPc,         \* "reg" (building), "pass1", "pass2", "done"
    runIdx,        \* index of the next task of the current pass
    runRes,        \* what run() returned: "none", "Ok", "Err"
    events,        \* tasks run() has awaited so far: pass, index, model, result
    firstRun,      \* once run() is called again: the schema the first run left
    \* ---- QueryBuilder state read by pagination.rs, and the count query of paginate
    where_clauses, \* Vec of WHERE clause closures, in call order
    having_clauses,\* Vec of HAVING clause closures, in call order
    qbPc,          \* "building", or "counted" once paginate has built its count query
    count_sql,     \* paginate: the rendered count query, as tokens
    count_args,    \* paginate: the arguments bound to the count query, in order
    join_clauses,  \* Vec of join entries, in call order; a raw one carries a bound value
    select_columns,\* Vec<String>: the projection; empty = all active columns
    order_clauses, \* Vec<String>: the ORDER BY entries
    query_limit,   \* Option<usize>: <<>> for None, <<n>> for Some(n)
    query_offset,  \* Option<usize>: <<>> for None, <<n>> for Some(n)
    original,      \* paginate: original_select and original_order
    data_sql,      \* paginate: the data query rendered by scan / scan_as, as tokens
    data_args,     \* paginate: the arguments scan / scan_as binds to it, in order
    \* ---- pagination.rs: Pagination { page, limit, max_limit } and Paginated<T>
    pagination,    \* the current Pagination value
    built,         \* the constructor call that built it, with its arguments
    total_rows,    \* rows matching the query, in its fixed order: 1 .. total_rows
    overflow_checks,\* build profile: usize overflow panics (debug) or wraps (release)
    pages,         \* results of the paginate calls made with the current page size
    applied,       \* Pagination::apply: the limit and offset it last put on a query
    \* ---- database.rs / transaction.rs: a table's rows behind a Connection
    table_rows,    \* primary keys of the rows in the table
    conn_kind,     \* the Connection the queries go through: "pool" or "tx"
    n_calls,       \* calls made so far
    last_call,     \* the last call: what, input, rows matched, result, statements sent
    \* ---- derive_anyrow.rs: FromAnyRow::from_any_row on one row
    row,           \* sqlx AnyRow: the cell under each column label
    decoded,       \* what from_any_row returned: per-field results, Ok or the error
    \* ---- database.rs: DatabaseBuilder::connect(url)
    url,           \* the connection string, as its characters
    database       \* what connect returned: Ok(Database { pool, driver }) or Err

txVars == <<tx, mutexOwner, mutexWaiters, pc, op, res, calls, sent,
            closedAtCall, finishedAtCall, takes, finished>>

dbVars == <<driver, db, contract, log, dbBefore, results>>

migVars == <<tasks, fk_task, runPc, runIdx, runRes, events, firstRun>>

stVars == <<join_clauses, select_columns, order_clauses, query_limit, query_offset>>

dataVars == <<original, data_sql, data_args>>

qbVars == <<where_clauses, having_clauses, qbPc, count_sql, count_args, stVars, dataVars>>

pagVars == <<pagination, built, total_rows, overflow_checks, pages, applied>>

rowVars == <<table_rows, conn_kind, n_calls, last_call>>

decVars == <<row, decoded>>

conVars == <<url, database>>

extVars == <<pagVars, rowVars, decVars, conVars>>

vars == <<txVars, dbVars, migVars, qbVars, extVars>>

----------------------------------------------------------------------------
(* Bounds *)

NumClones == 2     \* clones of the transaction handle
MaxCalls  == 2     \* calls issued through each clone

Clones == 1..NumClones
MaxFairCalls == 3  \* calls made in all when progress is checked

----------------------------------------------------------------------------
(* transaction.rs *)

ConnOps   == {"execute", "fetch_all", "fetch_one", "fetch_optional"}
FinishOps == {"commit", "rollback"}
AllOps    == ConnOps \cup FinishOps

\* The error the Connection impl returns when the Option is None
\* (Err(sqlx::Error::WorkerCrashed)): the code's TransactionClosedError.
TransactionClosedError == "WorkerCrashed"

\* What the backend may answer to a statement sent inside the transaction.
BackendResults(o) ==
    IF o = "fetch_one" THEN {"Ok", "RowNotFound", "DbErr"} ELSE {"Ok", "DbErr"}

ErrorResults == {TransactionClosedError, "RowNotFound", "DbErr"}

\* `if let Some(tx) = guard.as_mut()` in execute / fetch_*.
AsMutIsSome_NoCheck(t) == TRUE
AsMutIsSome(t) == t = "Some"

\* `guard.take()`: returns whether a transaction was inside, and what is left.
TakeLeaves_NotEmptied(t) == t
TakeLeaves(t) == "None"

\* tokio::sync::Mutex::lock(): the guard is granted at once only when the mutex
\* is free and nobody is queued; otherwise the caller queues (FIFO).
CanAcquire_NoExclusion(owner, waiters) == TRUE
CanAcquire(owner, waiters) == owner = 0 /\ waiters = <<>>

\* The result of commit() / rollback() when the Option is already None.
FinishOnClosed == "Ok"

\* A clone starts a call.  commit(self) / rollback(self) consume the clone,
\* so a clone that has finished one of them makes no further call ("moved").
Call(p, o) ==
    /\ pc[p] = "idle"
    /\ calls[p] < MaxCalls
    /\ pc' = [pc EXCEPT ![p] = "lock"]
    /\ op' = [op EXCEPT ![p] = o]
    /\ res' = [res EXCEPT ![p] = "pending"]
    /\ calls' = [calls EXCEPT ![p] = @ + 1]
    /\ sent' = [sent EXCEPT ![p] = FALSE]
    /\ closedAtCall' = [closedAtCall EXCEPT ![p] = (tx = "None")]
    /\ finishedAtCall' = [finishedAtCall EXCEPT ![p] = (finished # <<>>)]
    /\ UNCHANGED <<tx, mutexOwner, mutexWaiters, takes, finished>>

\* `let mut guard = self.tx.lock().await;`
Lock(p) ==
    /\ pc[p] = "lock"
    /\ IF CanAcquire(mutexOwner, mutexWaiters)
       THEN /\ mutexOwner' = p
            /\ pc' = [pc EXCEPT ![p] = "guard"]
            /\ UNCHANGED mutexWaiters
       ELSE /\ mutexWaiters' = Append(mutexWaiters, p)
            /\ pc' = [pc EXCEPT ![p] = "wait"]
            /\ UNCHANGED mutexOwner
    /\ UNCHANGED <<tx, op, res, calls, sent, closedAtCall, finishedAtCall,
                   takes, finished>>

\* Dropping the guard: the permit goes to the first queued waiter, if any.
OwnerAfterDrop_KeptByOwner == mutexOwner
OwnerAfterDrop == IF mutexWaiters = <<>> THEN 0 ELSE Head(mutexWaiters)
WaitersAfterDrop == IF mutexWaiters = <<>> THEN <<>> ELSE Tail(mutexWaiters)
PcAfterCall(p) == IF op[p] \in FinishOps THEN "moved" ELSE "idle"
PcAfterDrop(p) ==
    [q \in Clones |->
        IF q = p THEN PcAfterCall(p)
        ELSE IF mutexWaiters # <<>> /\ q = Head(mutexWaiters) THEN "guard"
        ELSE pc[q]]

\* execute / fetch_all / fetch_one / fetch_optional with the guard held:
\* Some -> the statement goes to the backend; None -> Err(WorkerCrashed).
ConnGuard(p) ==
    /\ pc[p] = "guard"
    /\ mutexOwner = p
    /\ op[p] \in ConnOps
    /\ IF AsMutIsSome(tx)
       THEN /\ pc' = [pc EXCEPT ![p] = "backend"]
            /\ sent' = [sent EXCEPT ![p] = TRUE]
            /\ UNCHANGED <<res, mutexOwner, mutexWaiters>>
       ELSE /\ res' = [res EXCEPT ![p] = TransactionClosedError]
            /\ mutexOwner' = OwnerAfterDrop
            /\ mutexWaiters' = WaitersAfterDrop
            /\ pc' = PcAfterDrop(p)
            /\ UNCHANGED sent
    /\ UNCHANGED <<tx, op, calls, closedAtCall, finishedAtCall, takes, finished>>

\* commit / rollback with the guard held: take() the handle and finish it on
\* the backend, or return Ok(()) when it is already gone.
FinishGuard(p) ==
    /\ pc[p] = "guard"
    /\ mutexOwner = p
    /\ op[p] \in FinishOps
    /\ IF tx = "Some"
       THEN /\ tx' = TakeLeaves(tx)
            /\ takes' = Append(takes, p)
            /\ pc' = [pc EXCEPT ![p] = "backend"]
            /\ sent' = [sent EXCEPT ![p] = TRUE]
            /\ UNCHANGED <<res, mutexOwner, mutexWaiters>>
       ELSE /\ res' = [res EXCEPT ![p] = FinishOnClosed]
            /\ mutexOwner' = OwnerAfterDrop
            /\ mutexWaiters' = WaitersAfterDrop
            /\ pc' = PcAfterDrop(p)
            /\ UNCHANGED <<tx, takes, sent>>
    /\ UNCHANGED <<op, calls, closedAtCall, finishedAtCall, finished>>

\* The awaited backend call returns; the guard is dropped as the call returns.
BackendReturn(p, r) ==
    /\ pc[p] = "backend"
    /\ r \in BackendResults(op[p])
    /\ res' = [res EXCEPT ![p] = r]
    /\ finished' = IF op[p] \in FinishOps THEN Append(finished, p) ELSE finished
    /\ mutexOwner' = OwnerAfterDrop
    /\ mutexWaiters' = WaitersAfterDrop
    /\ pc' = PcAfterDrop(p)
    /\ UNCHANGED <<tx, op, calls, sent, closedAtCall, finishedAtCall, takes>>

\* Database::begin: a fresh handle holding Some(tx) behind a free mutex.
TxInit ==
    /\ tx = "Some"
    /\ mutexOwner = 0
    /\ mutexWaiters = <<>>
    /\ pc = [p \in Clones |-> "idle"]
    /\ op = [p \in Clones |-> "none"]
    /\ res = [p \in Clones |-> "none"]
    /\ calls = [p \in Clones |-> 0]
    /\ sent = [p \in Clones |-> FALSE]
    /\ closedAtCall = [p \in Clones |-> FALSE]
    /\ finishedAtCall = [p \in Clones |-> FALSE]
    /\ takes = <<>>
    /\ finished = <<>>

TxNext ==
    \/ \E p \in Clones, o \in AllOps : Call(p, o)
    \/ \E p \in Clones : Lock(p)
    \/ \E p \in Clones : ConnGuard(p)
    \/ \E p \in Clones : FinishGuard(p)
    \/ \E p \in Clones, r \in {"Ok", "RowNotFound", "DbErr"} : BackendReturn(p, r)

Returned(p) == pc[p] \in {"idle", "moved"} /\ op[p] # "none"

----------------------------------------------------------------------------
(* model.rs: ColumnInfo and Model; the names the code derives from them *)

Drivers == {"Postgres", "MySQL", "SQLite"}

\* heck::ToSnakeCase on the identifiers used here (struct names give the table
\* names: stringify!(StructName)); names already in snake case are unchanged.
ToSnakeCase(name) ==
    CASE name = "User"    -> "user"
      [] name = "Post"    -> "post"
      [] name = "Comment" -> "comment"
      [] name = "Item"    -> "item"
      [] OTHER            -> name

\* ColumnInfo: the fields the schema code reads.
Column(n, ty, pk, nullable, uniq, idx, ft, fk) ==
    [name |-> n, sql_type |-> ty, is_primary_key |-> pk, is_nullable |-> nullable,
     unique |-> uniq, index |-> idx, foreign_table |-> ft, foreign_key |-> fk]

PlainColumn(n) == Column(n, "TEXT", FALSE, FALSE, FALSE, FALSE, "None", "None")

\* col.name.strip_prefix("r#").unwrap_or(col.name).to_snake_case()
ColNameClean(col) == ToSnakeCase(col.name)

TableNames == {"user", "post", "comment", "item"}

\* Index and constraint names, as the format! strings build them.
IdxName(table_name, col_name)  == <<"idx", table_name, col_name>>
UniqName(table_name, col_name) == <<"unique", table_name, col_name>>
FkName(table_name, f_table, col_name) == <<"fk", table_name, f_table, col_name>>
\* The name the backend gives the index behind an inline UNIQUE / PRIMARY KEY
\* (sqlite_autoindex_.., <t>_<c>_key, ..): never one of the names above.
AutoIndexName(table_name, col_name) == <<"auto", table_name, col_name>>

----------------------------------------------------------------------------
(* The database behind the pool: what each statement does to the schema *)

AbsentTable == [exists |-> FALSE, cols |-> {}, idx |-> {}, fks |-> {}]

\* Statements, by what they say.
StmtTableExists(t)        == [kind |-> "SELECT_TABLE_EXISTS", table |-> t, cols |-> <<>>, name |-> <<>>, guarded |-> FALSE]
StmtGetColumns(t)         == [kind |-> "SELECT_COLUMNS", table |-> t, cols |-> <<>>, name |-> <<>>, guarded |-> FALSE]
StmtGetIndexes(t)         == [kind |-> "SELECT_INDEXES", table |-> t, cols |-> <<>>, name |-> <<>>, guarded |-> FALSE]
\* CREATE TABLE IF NOT EXISTS; a variant without the guard.
StmtCreateTable_Unguarded(t, defs) == [kind |-> "CREATE_TABLE", table |-> t, cols |-> defs, name |-> <<>>, guarded |-> FALSE]
StmtCreateTable(t, defs)  == [kind |-> "CREATE_TABLE", table |-> t, cols |-> defs, name |-> <<>>, guarded |-> TRUE]
StmtCreateIndex(t, c, g)  == [kind |-> "CREATE_INDEX", table |-> t, cols |-> <<c>>, name |-> IdxName(t, c), guarded |-> g]
StmtCreateUnique_AsPlainIndex(t, c, g) == StmtCreateIndex(t, c, g)
StmtCreateUnique(t, c, g) == [kind |-> "CREATE_UNIQUE_INDEX", table |-> t, cols |-> <<c>>, name |-> UniqName(t, c), guarded |-> g]
StmtAddColumn(t, c, dflt) == [kind |-> "ALTER_ADD_COLUMN", table |-> t, cols |-> <<c>>, name |-> <<dflt>>, guarded |-> FALSE]
StmtAddForeignKey(t, c, ft, fk) ==
    [kind |-> "ALTER_ADD_CONSTRAINT", table |-> t, cols |-> <<c, ft, fk>>, name |-> FkName(t, ft, c), guarded |-> FALSE]

DdlKinds == {"CREATE_TABLE", "CREATE_INDEX", "CREATE_UNIQUE_INDEX",
             "ALTER_ADD_COLUMN", "ALTER_ADD_CONSTRAINT"}
AlterOrIndexKinds == {"CREATE_INDEX", "CREATE_UNIQUE_INDEX", "ALTER_ADD_COLUMN"}

Range(seq) == {seq[i] : i \in 1..Len(seq)}

\* Whether the backend accepts the statement on schema d (it may still fail for
\* reasons outside the schema: connectivity, duplicate rows under a new unique
\* index, ...).
Accepts(d, s) ==
    CASE s.kind = "CREATE_TABLE" -> s.guarded \/ ~d[s.table].exists
      [] s.kind \in {"CREATE_INDEX", "CREATE_UNIQUE_INDEX"} ->
            /\ d[s.table].exists
            /\ s.cols[1] \in d[s.table].cols
            /\ (s.guarded \/ s.name \notin d[s.table].idx)
      [] s.kind = "ALTER_ADD_COLUMN" ->
            /\ d[s.table].exists
            /\ s.cols[1] \notin d[s.table].cols
      [] s.kind = "ALTER_ADD_CONSTRAINT" ->
            /\ d[s.table].exists
            /\ s.cols[1] \in d[s.table].cols
            /\ s.cols[2] \in TableNames
            /\ d[s.cols[2]].exists
            /\ s.cols[3] \in d[s.cols[2]].cols
            /\ s.name \notin d[s.table].fks
      [] OTHER -> TRUE

\* The schema after the statement succeeded.
Applied(d, s) ==
    CASE s.kind = "CREATE_TABLE" ->
            IF d[s.table].exists THEN d
            ELSE [d EXCEPT ![s.table] =
                    [exists |-> TRUE,
                     cols |-> {s.cols[i].name : i \in 1..Len(s.cols)},
                     idx |-> {AutoIndexName(s.table, s.cols[i].name) :
                                i \in {j \in 1..Len(s.cols) :
                                        s.cols[j].primary_key \/ s.cols[j].unique}},
                     fks |-> {}]]
      [] s.kind \in {"CREATE_INDEX", "CREATE_UNIQUE_INDEX"} ->
            [d EXCEPT ![s.table].idx = @ \cup {s.name}]
      [] s.kind = "ALTER_ADD_COLUMN" ->
            [d EXCEPT ![s.table].cols = @ \cup {s.cols[1]}]
      [] s.kind = "ALTER_ADD_CONSTRAINT" ->
            [d EXCEPT ![s.table].fks = @ \cup {s.name}]
      [] OTHER -> d

\* One statement sent to the pool and awaited: position k of the operation;
\* the environment makes the statement at position failAt fail.
SentIf(st, s, envOk) ==
    LET ok == Accepts(st.db, s) /\ envOk
    IN  [db  |-> IF ok THEN Applied(st.db, s) ELSE st.db,
         log |-> Append(st.log, [stmt |-> s, ok |-> ok, env |-> envOk]),
         k   |-> st.k + 1,
         res |-> IF ok THEN "Ok" ELSE "Err"]

Sent(st, s, failAt) == SentIf(st, s, st.k # failAt)

Start(d) == [db |-> d, log |-> <<>>, k |-> 1, res |-> "Ok"]



----------------------------------------------------------------------------
(* database.rs: create_table, sync_table, assign_foreign_keys *)

\* The column definition pushed to column_defs.
ColumnDef(col) ==
    [name        |-> ColNameClean(col),
     sql_type    |-> col.sql_type,
     primary_key |-> col.is_primary_key,
     not_null    |-> ~col.is_primary_key /\ ~col.is_nullable,
     unique      |-> col.unique /\ ~col.is_primary_key]

\* `if col.index && !col.is_primary_key && !col.unique` in create_table.
IndexedOnCreate(col) == col.index /\ ~col.is_primary_key /\ ~col.unique

\* `for .. { sqlx::query(..).execute(&self.pool).await?; }`: the statements in
\* order, stopping at the first failure.
RECURSIVE SendAll(_, _, _, _)
SendAll(st, stmts, i, failAt) ==
    IF i > Len(stmts) THEN st
    ELSE LET st1 == Sent(st, stmts[i], failAt)
         IN  IF st1.res = "Err" THEN st1 ELSE SendAll(st1, stmts, i + 1, failAt)

\* A buggy variant: a failed statement is ignored and the loop continues.
CreateTable_IgnoresFailure(st, m, failAt) ==
    LET table_name == ToSnakeCase(m.table)
        query == StmtCreateTable(table_name,
                    [i \in 1..Len(m.columns) |-> ColumnDef(m.columns[i])])
        st1 == Sent(st, query, failAt)
        indexed == SelectSeq(m.columns, IndexedOnCreate)
        st2 == SendAll([st1 EXCEPT !.res = "Ok"],
                       [i \in 1..Len(indexed) |->
                          StmtCreateIndex(table_name, ColNameClean(indexed[i]), TRUE)],
                       1, failAt)
    IN  [st2 EXCEPT !.res = IF st1.res = "Err" THEN "Err" ELSE st2.res]

\* Database::create_table.
CreateTable(st, m, failAt) ==
    LET table_name == ToSnakeCase(m.table)
        query == StmtCreateTable(table_name,
                    [i \in 1..Len(m.columns) |-> ColumnDef(m.columns[i])])
        indexed == SelectSeq(m.columns, IndexedOnCreate)
        indexes == [i \in 1..Len(indexed) |->
                      StmtCreateIndex(table_name, ColNameClean(indexed[i]), TRUE)]
    IN  SendAll(st, <<query>> \o indexes, 1, failAt)

\* The DEFAULT literal of an added non-nullable column.
DefaultLiteral(sql_type) ==
    CASE sql_type \in {"INTEGER", "INT", "BIGINT"} -> "0"
      [] sql_type \in {"BOOLEAN", "BOOL"}          -> "FALSE"
      [] OTHER                                      -> "''"

AlterDefault(col) == IF col.is_nullable THEN "none" ELSE DefaultLiteral(col.sql_type)

\* `if !existing_columns.contains(&col_name_clean)`: the column is added.
AlterNeeded_Never(col_name_clean, existing_columns) == FALSE
AlterNeeded(col_name_clean, existing_columns) == col_name_clean \notin existing_columns

\* The body of `for col in model_columns` in sync_table, from column i on.
RECURSIVE SyncColumns(_, _, _, _, _, _)
SyncColumns(st, m, i, existing_columns, drv, failAt) ==
    IF i > Len(m.columns) THEN st
    ELSE
    LET table_name == ToSnakeCase(m.table)
        col == m.columns[i]
        col_name_clean == ColNameClean(col)
        st1 == IF AlterNeeded(col_name_clean, existing_columns)
               THEN Sent(st, StmtAddColumn(table_name, col_name_clean, AlterDefault(col)), failAt)
               ELSE st
        st2 == Sent(st1, StmtGetIndexes(table_name), failAt)
        existing_indexes == st2.db[table_name].idx
        idx_name == IdxName(table_name, col_name_clean)
        uniq_name == UniqName(table_name, col_name_clean)
        st3 == IF col.unique /\ uniq_name \notin existing_indexes
               THEN Sent(st2, StmtCreateUnique(table_name, col_name_clean, drv = "SQLite"), failAt)
               ELSE IF col.index /\ idx_name \notin existing_indexes /\ ~col.unique
               THEN Sent(st2, StmtCreateIndex(table_name, col_name_clean, drv = "SQLite"), failAt)
               ELSE st2
    IN  IF st1.res = "Err" THEN st1
        ELSE IF ~(col.index \/ col.unique)
        THEN SyncColumns(st1, m, i + 1, existing_columns, drv, failAt)
        ELSE IF st2.res = "Err" THEN st2
        ELSE IF st3.res = "Err" THEN st3
        ELSE SyncColumns(st3, m, i + 1, existing_columns, drv, failAt)

\* A buggy variant: an existing table is rebuilt from the contract.
SyncTable_Rebuilds(st, m, drv, failAt) ==
    LET table_name == ToSnakeCase(m.table)
        st1 == Sent(st, StmtTableExists(ToSnakeCase(m.table)), failAt)
        st2 == [st1 EXCEPT !.db[table_name] = AbsentTable]
    IN  IF st1.res = "Err" THEN st1 ELSE CreateTable(st2, m, failAt)

\* Database::sync_table.
SyncTable(st, m, drv, failAt) ==
    LET table_name == ToSnakeCase(m.table)
        st1 == Sent(st, StmtTableExists(ToSnakeCase(m.table)), failAt)
        st2 == Sent(st1, StmtGetColumns(table_name), failAt)
        existing_columns == st2.db[table_name].cols
    IN  IF st1.res = "Err" THEN st1
        ELSE IF ~st1.db[table_name].exists THEN CreateTable(st1, m, failAt)
        ELSE IF st2.res = "Err" THEN st2
        ELSE SyncColumns(st2, m, 1, existing_columns, drv, failAt)

\* `let _ = sqlx::query(&query).execute(&self.pool).await;`: what becomes of
\* the statement's result.  A buggy variant propagates it.
FkResult_Propagated(ok) == IF ok THEN "Ok" ELSE "Err"
FkResult(ok) == "Ok"

\* Database::assign_foreign_keys, from column i on; `fails` are the columns
\* whose statement the environment makes fail.
\* if matches!(self.driver, Drivers::SQLite) { continue; }
SkipsForeignKeys_Never(drv) == FALSE
SkipsForeignKeys(drv) == drv = "SQLite"

RECURSIVE AssignForeignKeys(_, _, _, _, _)
AssignForeignKeys(st, m, i, drv, fails) ==
    IF i > Len(m.columns) THEN st
    ELSE
    LET table_name == ToSnakeCase(m.table)
        col == m.columns[i]
        query == StmtAddForeignKey(table_name, ToSnakeCase(col.name),
                                   ToSnakeCase(col.foreign_table),
                                   ToSnakeCase(col.foreign_key))
        st1 == SentIf(st, query, i \notin fails)
        st2 == [st1 EXCEPT !.res = FkResult(st1.res = "Ok")]
    IN  IF col.foreign_table = "None" \/ col.foreign_key = "None"
        THEN AssignForeignKeys(st, m, i + 1, drv, fails)
        ELSE IF SkipsForeignKeys(drv)
        THEN AssignForeignKeys(st, m, i + 1, drv, fails)
        ELSE IF st2.res = "Err" THEN st2
        ELSE AssignForeignKeys(st2, m, i + 1, drv, fails)


----------------------------------------------------------------------------
(* Bounds of the schema specifications *)

MaxReg       == 3   \* register::<T>() calls before run()
MaxSyncCalls == 2   \* sync_table calls in a row
MaxCols      == 2   \* columns of the contract given to sync_table

----------------------------------------------------------------------------
(* The models registered with the migrator (dev/src/main.rs and the tests) *)

ModelNames == {"User", "Post", "Comment"}

ModelOf(name) ==
    CASE name = "User" ->
            [table |-> "User",
             columns |-> << Column("id", "TEXT", TRUE, FALSE, FALSE, FALSE, "None", "None"),
                            Column("username", "VARCHAR(50)", FALSE, FALSE, TRUE, FALSE, "None", "None"),
                            Column("email", "TEXT", FALSE, FALSE, FALSE, TRUE, "None", "None") >>]
      [] name = "Post" ->
            [table |-> "Post",
             columns |-> << Column("id", "TEXT", TRUE, FALSE, FALSE, FALSE, "None", "None"),
                            Column("user_id", "TEXT", FALSE, FALSE, FALSE, FALSE, "User", "id"),
                            Column("title", "TEXT", FALSE, FALSE, FALSE, FALSE, "None", "None") >>]
      [] OTHER ->
            [table |-> "Comment",
             columns |-> << Column("id", "INTEGER", TRUE, FALSE, FALSE, FALSE, "None", "None"),
                            Column("post_id", "TEXT", FALSE, FALSE, FALSE, TRUE, "Post", "id"),
                            Column("user_id", "TEXT", FALSE, TRUE, FALSE, FALSE, "User", "id") >>]

ForeignKeyColumns(m) ==
    {i \in 1..Len(m.columns) :
        m.columns[i].foreign_table # "None" /\ m.columns[i].foreign_key # "None"}

\* A table left by an earlier version of the application.
LegacyTable == [exists |-> TRUE, cols |-> {"id", "legacy"},
                idx |-> {<<"legacy", "index">>}, fks |-> {}]

NoContract == [table |-> "None", columns |-> <<>>]

NoFirstRun == [done |-> FALSE, db |-> [t \in TableNames |-> AbsentTable], clean |-> TRUE]

Tagged(entries, task) ==
    [i \in 1..Len(entries) |->
        [stmt |-> entries[i].stmt, ok |-> entries[i].ok, env |-> entries[i].env,
         task |-> task]]

----------------------------------------------------------------------------
(* migration.rs: Migrator::register and Migrator::run *)

\* Where run() stands before awaiting its next task: the first `for` runs over
\* self.tasks, the second over self.fk_task, then Ok(db).
\* A buggy variant: one loop, each model created and linked in turn.
Position_Interleaved(pass, idx) ==
    IF pass = "pass1" THEN <<"pass2", idx - 1>>
    ELSE IF idx <= Len(tasks) THEN <<"pass1", idx>>
    ELSE <<"done", 0>>
Position(pass, idx) ==
    IF pass = "pass1" /\ idx <= Len(tasks) THEN <<"pass1", idx>>
    ELSE IF pass = "pass1" THEN
        (IF 1 <= Len(fk_task) THEN <<"pass2", 1>> ELSE <<"done", 0>>)
    ELSE IF idx <= Len(fk_task) THEN <<"pass2", idx>>
    ELSE <<"done", 0>>

\* Migrator::register::<T>(): pushes one task on each queue.  A variant that
\* creates the table at once.
Register_CreatesAtOnce(name) ==
    /\ runPc = "reg"
    /\ Len(tasks) < MaxReg
    /\ tasks' = Append(tasks, name)
    /\ fk_task' = Append(fk_task, name)
    /\ LET st == CreateTable(Start(db), ModelOf(name), 0)
       IN  db' = st.db /\ log' = log \o Tagged(st.log, <<"create", 0>>)
    /\ UNCHANGED <<runPc, runIdx, runRes, events, firstRun, driver, contract,
                   dbBefore, results>>
Register(name) ==
    /\ runPc = "reg"
    /\ Len(tasks) < MaxReg
    /\ tasks' = Append(tasks, name)
    /\ fk_task' = Append(fk_task, name)
    /\ UNCHANGED <<runPc, runIdx, runRes, events, firstRun, dbVars>>

\* Migrator::run() is called: the first task, if any, is next.
RunCall ==
    /\ runPc = "reg"
    /\ runPc' = IF tasks = <<>> THEN "done" ELSE "pass1"
    /\ runIdx' = IF tasks = <<>> THEN 0 ELSE 1
    /\ runRes' = IF tasks = <<>> THEN "Ok" ELSE "none"
    /\ log' = <<>>
    /\ dbBefore' = db
    /\ UNCHANGED <<tasks, fk_task, events, firstRun, driver, db, contract, results>>

\* `(task)(self.db.clone()).await?` in the first loop: create_table::<T>().
RunCreateTask(failAt) ==
    /\ runPc = "pass1"
    /\ LET m == ModelOf(tasks[runIdx])
           st == CreateTable(Start(db), m, failAt)
           next == Position("pass1", runIdx + 1)
       IN  /\ db' = st.db
           /\ log' = log \o Tagged(st.log, <<"create", runIdx>>)
           /\ events' = Append(events, [pass |-> "create", idx |-> runIdx,
                                         model |-> tasks[runIdx], res |-> st.res])
           /\ IF st.res = "Err"
              THEN runPc' = "done" /\ runIdx' = 0 /\ runRes' = "Err"
              ELSE runPc' = next[1] /\ runIdx' = next[2]
                   /\ runRes' = IF next[1] = "done" THEN "Ok" ELSE "none"
    /\ UNCHANGED <<tasks, fk_task, firstRun, driver, contract, dbBefore, results>>

\* `(task)(self.db.clone()).await?` in the second loop: assign_foreign_keys::<T>().
RunFkTask(fails) ==
    /\ runPc = "pass2"
    /\ LET m == ModelOf(fk_task[runIdx])
           st == AssignForeignKeys(Start(db), m, 1, driver, fails)
           next == Position("pass2", runIdx + 1)
       IN  /\ db' = st.db
           /\ log' = log \o Tagged(st.log, <<"fk", runIdx>>)
           /\ events' = Append(events, [pass |-> "fk", idx |-> runIdx,
                                         model |-> fk_task[runIdx], res |-> st.res])
           /\ IF st.res = "Err"
              THEN runPc' = "done" /\ runIdx' = 0 /\ runRes' = "Err"
              ELSE runPc' = next[1] /\ runIdx' = next[2]
                   /\ runRes' = IF next[1] = "done" THEN "Ok" ELSE "none"
    /\ UNCHANGED <<tasks, fk_task, firstRun, driver, contract, dbBefore, results>>

\* No statement of the run so far was failed by the environment.
CleanRun == \A i \in 1..Len(log) : log[i].env

\* db.migrator() with the same registrations, and run() again, after a run
\* that returned Ok.
RunAgain ==
    /\ runPc = "done" /\ runRes = "Ok"
    /\ ~firstRun.done
    /\ firstRun' = [done |-> TRUE, db |-> db, clean |-> CleanRun]
    /\ runPc' = IF tasks = <<>> THEN "done" ELSE "pass1"
    /\ runIdx' = IF tasks = <<>> THEN 0 ELSE 1
    /\ runRes' = IF tasks = <<>> THEN "Ok" ELSE "none"
    /\ log' = <<>>
    /\ events' = <<>>
    /\ dbBefore' = db
    /\ UNCHANGED <<tasks, fk_task, driver, db, contract, results>>

----------------------------------------------------------------------------
(* Calls of Database::sync_table *)

\* db.sync_table::<T>() with the model T, awaited to its result.
SyncCall(m, failAt) ==
    /\ Len(results) < MaxSyncCalls
    /\ LET st == SyncTable(Start(db), m, driver, failAt)
       IN  /\ db' = st.db
           /\ log' = Tagged(st.log, <<"sync", Len(results) + 1>>)
           /\ results' = Append(results, st.res)
    /\ dbBefore' = db
    /\ contract' = m
    /\ UNCHANGED <<driver, migVars>>

\* The positions at which the environment can make a sync_table call fail:
\* those of the statements the call issues when nothing fails before them.
SyncPositions(m) == 0..Len(SyncTable(Start(db), m, driver, 0).log)



----------------------------------------------------------------------------
(* The filter state of the QueryBuilder.  Each filter method pushes a clause  *)
(* closure `clause(&mut query, &mut args, &driver, &mut arg_counter)`         *)
(* (pagination.rs:173-179); what the closures push is the FilterNode contract *)
(* of the builder: leaf, negation, BETWEEN, IN, raw text, OR-group.           *)

MaxFilterCalls == 2   \* filter calls on one builder
MaxHavingCalls == 1   \* having calls on one builder
MaxJoinCalls == 1     \* join calls on one builder
MaxListCalls == 1     \* select calls, and order calls, on one builder

Clause(conn, kind, vals, body) ==
    [conn |-> conn, kind |-> kind, vals |-> vals, body |-> body]

Text(str) == [t |-> "text", s |-> str, n |-> 0, v |-> 0]

\* The placeholder of argument number n, written for the value v:
\* "$n" on Postgres, "?" (no number) on MySQL and SQLite.
Placeholder(drv, n, v) ==
    [t |-> "ph", s |-> IF drv = "Postgres" THEN "$" ELSE "?",
     n |-> IF drv = "Postgres" THEN n ELSE 0, v |-> v]

\* One value pushed: its placeholder goes to the query, the value to args.
PushValue(st, drv, v) ==
    [sql |-> Append(st.sql, Placeholder(drv, st.counter, v)),
     args |-> Append(st.args, v),
     counter |-> st.counter + 1]

PushText(st, str) == [st EXCEPT !.sql = Append(@, Text(str))]

RECURSIVE PushValues(_, _, _, _)
PushValues(st, drv, vals, i) ==
    IF i > Len(vals) THEN st
    ELSE PushValues(PushValue(IF i > 1 THEN PushText(st, ",") ELSE st, drv, vals[i]),
                    drv, vals, i + 1)

\* Calling one clause closure, and calling a Vec of them in order.
RECURSIVE CallClause(_, _, _)
RECURSIVE CallClauses(_, _, _, _)
CallClause(st, drv, c) ==
    LET st0 == PushText(st, c.conn)
    IN  CASE c.kind = "leaf" ->
                PushValue(PushText(st0, "col op"), drv, c.vals[1])
          [] c.kind = "not" ->
                PushText(PushValue(PushText(st0, "NOT (col op"), drv, c.vals[1]), ")")
          [] c.kind = "is_null" ->
                PushText(st0, "col IS NULL")
          [] c.kind = "between" ->
                PushValue(PushText(PushValue(PushText(st0, "col BETWEEN"), drv, c.vals[1]),
                                   "AND"), drv, c.vals[2])
          [] c.kind = "in" ->
                PushText(PushValues(PushText(st0, "col IN ("), drv, c.vals, 1), ")")
          [] c.kind = "raw" ->
                PushText(PushValue(PushText(st0, "raw"), drv, c.vals[1]), "raw")
          [] OTHER ->
                PushText(CallClauses(PushText(st0, "("), drv, c.body, 1), ")")
CallClauses(st, drv, clauses, i) ==
    IF i > Len(clauses) THEN st
    ELSE CallClauses(CallClause(st, drv, clauses[i]), drv, clauses, i + 1)

NoArgs == [sql |-> <<>>, args |-> <<>>, counter |-> 1]

\* A join entry: join / inner_join (ON-predicate text), or join_raw with the
\* value bound to the placeholder of its ON text.
Join(kind, v) == [kind |-> kind, v |-> v]

RECURSIVE CallJoins(_, _, _, _)
CallJoins(st, drv, joins, i) ==
    IF i > Len(joins) THEN st
    ELSE CallJoins(IF joins[i].kind = "raw"
                   THEN PushValue(PushText(st, "JOIN t ON raw"), drv, joins[i].v)
                   ELSE PushText(st, "JOIN t ON a = b"),
                   drv, joins, i + 1)

\* A list of projection or ordering entries, and a LIMIT / OFFSET number
\* (a usize: n its high part, v its low part).
Entries(kind, list) == [i \in 1..Len(list) |-> [t |-> kind, s |-> list[i], n |-> 0, v |-> 0]]
Number(kind, w) == [t |-> kind, s |-> kind, n |-> w.hi, v |-> w.lo]

\* The builder state to_sql() renders.
Query ==
    [select_columns |-> select_columns, join_clauses |-> join_clauses,
     where_clauses |-> where_clauses, having_clauses |-> having_clauses,
     order_clauses |-> order_clauses, limit |-> query_limit, offset |-> query_offset]

\* QueryBuilder::to_sql(): projection, FROM, JOINs in call order, WHERE,
\* GROUP BY, HAVING, then ORDER BY / LIMIT / OFFSET when set.
ToSql(q, drv) ==
    LET proj == IF q.select_columns = <<>> THEN Entries("select", <<"*">>)
                ELSE Entries("select", q.select_columns)
        st0 == [NoArgs EXCEPT !.sql = proj]
        st1 == PushText(CallJoins(PushText(st0, "FROM table"), drv, q.join_clauses, 1),
                        "WHERE 1=1")
        st2 == CallClauses(st1, drv, q.where_clauses, 1)
        st3 == IF q.having_clauses = <<>> THEN st2
               ELSE CallClauses(PushText(st2, "GROUP BY col HAVING 1=1"), drv,
                                q.having_clauses, 1)
    IN  st3.sql \o Entries("order", q.order_clauses)
          \o (IF q.limit = <<>> THEN <<>> ELSE <<Number("limit", q.limit[1])>>)
          \o (IF q.offset = <<>> THEN <<>> ELSE <<Number("offset", q.offset[1])>>)

\* What scan / scan_as binds: the values in rendering order, JOINs, WHERE,
\* HAVING.
ScanArgs(q, drv) ==
    CallClauses(CallClauses(CallJoins(NoArgs, drv, q.join_clauses, 1),
                            drv, q.where_clauses, 1),
                drv, q.having_clauses, 1).args

\* paginate / paginate_as, "Re-bind arguments for count query": the WHERE
\* closures, then the HAVING closures, on fresh args and arg_counter = 1.
\* A buggy variant walks the HAVING closures first.
BindCountArgs_HavingFirst(wh, hv, drv) ==
    CallClauses(CallClauses(NoArgs, drv, hv, 1), drv, wh, 1).args
BindCountArgs(wh, hv, drv) ==
    CallClauses(CallClauses(NoArgs, drv, wh, 1), drv, hv, 1).args

\* The values of a filter tree in left-to-right order.
RECURSIVE WalkValues(_, _)
WalkValues(clauses, i) ==
    IF i > Len(clauses) THEN <<>>
    ELSE (IF clauses[i].kind = "group" THEN WalkValues(clauses[i].body, 1)
          ELSE clauses[i].vals) \o WalkValues(clauses, i + 1)

\* The clauses the filter methods push.
FilterValues == {1, 2}

LeafClauses ==
    {Clause(conn, kind, <<v>>, <<>>) :
        conn \in {"AND", "OR"}, kind \in {"leaf", "not", "raw"}, v \in FilterValues}
    \cup {Clause("AND", "is_null", <<>>, <<>>),
          Clause("AND", "between", <<1, 2>>, <<>>), Clause("OR", "between", <<2, 1>>, <<>>),
          Clause("AND", "in", <<2, 1>>, <<>>), Clause("OR", "in", <<1>>, <<>>)}

\* or_group(|q| ...): the closure's predicates become one OR-branch.
GroupBodies ==
    LET a == Clause("AND", "leaf", <<1>>, <<>>)
        b == Clause("AND", "leaf", <<2>>, <<>>)
        n == Clause("AND", "not", <<2>>, <<>>)
        r == Clause("OR", "between", <<2, 1>>, <<>>)
        inner == Clause("OR", "group", <<>>, <<n, r>>)
    IN  {<<a, b>>, <<n>>, <<a, inner>>, <<inner, b>>,
         <<Clause("OR", "group", <<>>, <<a, inner>>), r>>}

GroupClauses == {Clause("OR", "group", <<>>, body) : body \in GroupBodies}

\* filter / or_filter / not_filter / between / in_list / where_raw / is_null.
Filter(c) ==
    /\ qbPc = "building"
    /\ Len(where_clauses) < MaxFilterCalls
    /\ where_clauses' = Append(where_clauses, c)
    /\ UNCHANGED <<having_clauses, qbPc, count_sql, count_args, stVars, dataVars>>

\* or_group.
OrGroup(c) ==
    /\ qbPc = "building"
    /\ Len(where_clauses) < MaxFilterCalls
    /\ where_clauses' = Append(where_clauses, c)
    /\ UNCHANGED <<having_clauses, qbPc, count_sql, count_args, stVars, dataVars>>

\* having.
Having(v) ==
    /\ qbPc = "building"
    /\ Len(having_clauses) < MaxHavingCalls
    /\ having_clauses' = Append(having_clauses, Clause("AND", "leaf", <<v>>, <<>>))
    /\ UNCHANGED <<where_clauses, qbPc, count_sql, count_args, stVars, dataVars>>

----------------------------------------------------------------------------
(* Inputs of sync_table: every contract of up to MaxCols columns, and every  *)
(* prior state of its table                                                  *)

ColumnNames == <<"c1", "c2", "c3", "c4">>

\* The column at position i is INTEGER NOT NULL, TEXT NULL, BOOLEAN NOT NULL, ...
SqlTypeAt(i) == <<"INTEGER", "TEXT", "BOOLEAN", "VARCHAR(50)">>[i]
NullableAt(i) == i % 2 = 0

ColumnKinds == [is_primary_key : BOOLEAN, unique : BOOLEAN, index : BOOLEAN]

ContractOf(kinds) ==
    [table |-> "Item",
     columns |-> [i \in 1..Len(kinds) |->
                    Column(ColumnNames[i], SqlTypeAt(i), kinds[i].is_primary_key,
                           NullableAt(i), kinds[i].unique, kinds[i].index,
                           "None", "None")]]

\* A table declares at most one PRIMARY KEY column; as in the models of the
\* repository it is the first one.
SyncContracts ==
    {ContractOf(kinds) : kinds \in
        {k \in UNION {[1..n -> ColumnKinds] : n \in 1..MaxCols} :
            \A i \in DOMAIN k : k[i].is_primary_key => i = 1}}

ContractColumnNames(m) == {ColNameClean(m.columns[i]) : i \in 1..Len(m.columns)}

\* The index names sync_table looks for in the catalog, given the contract.
ConsultedIndexes(m) ==
    {UniqName(ToSnakeCase(m.table), ColNameClean(m.columns[i])) :
        i \in {j \in 1..Len(m.columns) : m.columns[j].unique}} \cup
    {IdxName(ToSnakeCase(m.table), ColNameClean(m.columns[i])) :
        i \in {j \in 1..Len(m.columns) : m.columns[j].index /\ ~m.columns[j].unique}}

\* The table is absent, or exists with a legacy column and a legacy index (in
\* the database, not in the contract), any of the contract's columns and any
\* of the indexes sync_table looks for.
PriorTables(m) ==
    {AbsentTable} \cup
    {[exists |-> TRUE, cols |-> {"legacy"} \cup cs,
      idx |-> {<<"legacy", "index">>} \cup is, fks |-> {}] :
        cs \in SUBSET ContractColumnNames(m),
        is \in SUBSET ConsultedIndexes(m)}

\* types.rs: rust_type_to_sql, applied to the last path segment of the field
\* type (inside Option<..> for a nullable field).
RustTypeToSql(type_name) ==
    CASE type_name = "i32" -> "INTEGER"
      [] type_name = "i64" -> "BIGINT"
      [] type_name = "String" -> "TEXT"
      [] type_name = "bool" -> "BOOLEAN"
      [] type_name = "f64" -> "DOUBLE PRECISION"
      [] type_name = "DateTime" -> "TIMESTAMPTZ"
      [] type_name = "NaiveDateTime" -> "TIMESTAMP"
      [] type_name = "NaiveDate" -> "DATE"
      [] type_name = "NaiveTime" -> "TIME"
      [] OTHER -> "TEXT"

RustTypes == {"i32", "i64", "String", "bool", "f64", "DateTime", "NaiveDateTime",
              "NaiveDate", "NaiveTime", "Uuid", "u8"}

\* A model with a key and one field of the given type, plain or Option<..>.
TypedContract(type_name, optional) ==
    [table |-> "Item",
     columns |-> << Column("c1", "INTEGER", TRUE, FALSE, FALSE, FALSE, "None", "None"),
                    Column("c2", RustTypeToSql(type_name), FALSE, optional, FALSE, FALSE,
                           "None", "None") >>]

TypedContracts == {TypedContract(ty, o) : ty \in RustTypes, o \in BOOLEAN}

----------------------------------------------------------------------------
(* pagination.rs: Pagination and Paginated *)

MaxRows == 3       \* rows matching the paginated query (small totals)
MaxPage == 2       \* page indexes requested (small indexes)
MaxPaginateCalls == 3  \* paginate calls kept for one page size

\* usize, i64 and integral f64 values: hi * 2^52 + lo, with |lo| far below 2^52.
W(h, l) == [hi |-> h, lo |-> l]
Small(n) == W(0, n)
WLess(a, b) == a.hi < b.hi \/ (a.hi = b.hi /\ a.lo < b.lo)

\* usize is 64 bits wide: 2^64 = UsizeHi * 2^52.
UsizeHi == 4096
\* i64::MAX = 2^63 - 1
I64Max == W(2048, -1)

\* self.page * self.limit on usize.
MulOverflows(page, limit) == page.hi * limit >= UsizeHi
WrappingMul(page, limit) == W((page.hi * limit) % UsizeHi, page.lo * limit)

\* `as f64`: a value below 2^53 converts exactly; from 2^53 on the f64 values
\* are Spacing apart and the conversion rounds to the nearest, ties to the
\* even mantissa.
RECURSIVE Spacing(_)
Spacing(h) == IF h <= 1 THEN 1 ELSE 2 * Spacing(h \div 2)

RoundTiesEven(l, s) ==
    LET q == l \div s
        r == l % s
    IN  IF 2 * r < s THEN q * s
        ELSE IF 2 * r > s THEN (q + 1) * s
        ELSE IF q % 2 = 0 THEN q * s ELSE (q + 1) * s

AsF64(n) == W(n.hi, RoundTiesEven(n.lo, Spacing(n.hi)))

\* The f64 quotients computed here without rounding a second time: below 2^53
\* the ceiling of the rounded quotient is the ceiling of the exact one; from
\* 2^53 on the quotient is exact when the divisor is 1 or divides the value
\* into an integer below 2^53.
F64Exact(t, limit) ==
    \/ t.hi = 0
    \/ limit = 1
    \/ (limit > 1 /\ t.hi % limit = 0 /\ t.lo % limit = 0 /\ t.hi \div limit <= 1)

\* (total as f64 / self.limit as f64).ceil() as i64
\* x / 0.0 is +inf (i64::MAX after the cast), 0.0 / 0.0 is NaN (0 after the cast).
TotalPages(total, limit) ==
    LET t == AsF64(total)
    IN  IF limit = 0 THEN (IF t = Small(0) THEN Small(0) ELSE I64Max)
        ELSE IF t.hi = 0 THEN Small((t.lo + limit - 1) \div limit)
        ELSE W(t.hi \div limit, t.lo \div limit)

\* Pagination::new_with_limit
NewWithLimit_ClampsToMax(page, limit, max_limit) ==
    [page |-> page,
     limit |-> IF limit > max_limit THEN max_limit ELSE limit,
     max_limit |-> max_limit]
NewWithLimit(page, limit, max_limit) ==
    [page |-> page,
     limit |-> IF limit > max_limit THEN 10 ELSE limit,
     max_limit |-> max_limit]

\* Pagination::new
New(page, limit) == NewWithLimit(page, limit, 100)

\* The results kept are those of the current page size.
PagesAfter(p) == IF p.limit = pagination.limit THEN pages ELSE {}

NewWithLimitCall(page, limit, max_limit) ==
    /\ pagination' = NewWithLimit(page, limit, max_limit)
    /\ built' = [ctor |-> "new_with_limit", page |-> page, limit |-> limit,
                 max_limit |-> max_limit]
    /\ pages' = PagesAfter(pagination')
    /\ UNCHANGED <<total_rows, overflow_checks, applied>>

\* Pagination { page, limit, max_limit } written through its public fields or
\* deserialized (Query<Pagination>): no constructor runs.
FromFields(page, limit, max_limit) ==
    /\ pagination' = [page |-> page, limit |-> limit, max_limit |-> max_limit]
    /\ built' = [ctor |-> "fields", page |-> page, limit |-> limit,
                 max_limit |-> max_limit]
    /\ pages' = PagesAfter(pagination')
    /\ UNCHANGED <<total_rows, overflow_checks, applied>>

NewCall(page, limit) ==
    /\ pagination' = New(page, limit)
    /\ built' = [ctor |-> "new", page |-> page, limit |-> limit, max_limit |-> 0]
    /\ pages' = PagesAfter(pagination')
    /\ UNCHANGED <<total_rows, overflow_checks, applied>>

\* The data query: the rows of the ordered result after the first `offset`
\* ones, at most `limit` of them.
RowsReturned(total, offset, limit) ==
    IF ~WLess(offset, total) THEN 0
    ELSE IF total.hi > offset.hi THEN limit
    ELSE IF total.lo - offset.lo < limit THEN total.lo - offset.lo ELSE limit

NotApplied == [res |-> "none", limit |-> 0, offset |-> Small(0), max_limit |-> 0]

\* if self.limit > self.max_limit { self.limit = 10; }
ApplyLimit(p) == IF p.limit > p.max_limit THEN 10 ELSE p.limit

\* Pagination::apply: query.limit(self.limit).offset(self.page * self.limit)
Apply ==
    /\ applied' =
          LET limit == ApplyLimit(pagination)
          IN  IF MulOverflows(pagination.page, limit) /\ overflow_checks
              THEN [NotApplied EXCEPT !.res = "Panic", !.max_limit = pagination.max_limit]
              ELSE [res |-> "Ok", limit |-> limit,
                    offset |-> WrappingMul(pagination.page, limit),
                    max_limit |-> pagination.max_limit]
    /\ UNCHANGED <<pagination, built, total_rows, overflow_checks, pages>>

NoPage == [method |-> "none", res |-> "none", page |-> Small(0), limit |-> 0,
           max_limit |-> 0,
           total |-> Small(0), total_pages |-> Small(0),
           first |-> Small(0), len |-> 0]

\* Pagination::paginate / Pagination::paginate_as: the count query, the data
\* query with LIMIT self.limit OFFSET self.page * self.limit, the metadata.
\* fail: the query the backend fails, "count", "data" or "none".
PaginateResult(method, fail) ==
    LET limit  == pagination.limit
        page   == pagination.page
        offset == WrappingMul(page, limit)
        failed == [NoPage EXCEPT !.method = method, !.page = page, !.limit = limit,
                                 !.max_limit = pagination.max_limit]
    IN  IF fail = "count" THEN [failed EXCEPT !.res = "Err"]
        ELSE IF MulOverflows(page, limit) /\ overflow_checks
             THEN [failed EXCEPT !.res = "Panic"]
        ELSE IF fail = "data" THEN [failed EXCEPT !.res = "Err"]
        ELSE [method |-> method, res |-> "Ok", page |-> page, limit |-> limit,
              max_limit |-> pagination.max_limit,
              total |-> total_rows,
              total_pages |-> TotalPages(total_rows, limit),
              first |-> offset,
              len |-> RowsReturned(total_rows, offset, limit)]

Paginate(method, fail) ==
    /\ pages' = pages \cup {PaginateResult(method, fail)}
    /\ UNCHANGED <<pagination, built, total_rows, overflow_checks, applied>>

\* Inputs.
PageValues == {Small(p) : p \in 0..MaxPage} \cup {W(2048, 0)}
TotalRowValues == {Small(t) : t \in 0..MaxRows} \cup {W(2, d) : d \in 0..2}
LimitValues == {0, 1, 2, 3, 10, 11, 100, 101}
MaxLimitValues == {2, 10, 100}
PageSizes == {0, 1, 2, 101}
LimitPages == {Small(1)}

----------------------------------------------------------------------------
(* pagination.rs: paginate / paginate_as on the state of the QueryBuilder *)

\* join / inner_join / join_raw.
JoinCall(j) ==
    /\ qbPc = "building"
    /\ Len(join_clauses) < MaxJoinCalls
    /\ join_clauses' = Append(join_clauses, j)
    /\ UNCHANGED <<where_clauses, having_clauses, qbPc, count_sql, count_args,
                   select_columns, order_clauses, query_limit, query_offset, dataVars>>

\* select / order / limit / offset.
Select(text) ==
    /\ qbPc = "building"
    /\ Len(select_columns) < MaxListCalls
    /\ select_columns' = Append(select_columns, text)
    /\ UNCHANGED <<where_clauses, having_clauses, qbPc, count_sql, count_args,
                   join_clauses, order_clauses, query_limit, query_offset, dataVars>>

Order(text) ==
    /\ qbPc = "building"
    /\ Len(order_clauses) < MaxListCalls
    /\ order_clauses' = Append(order_clauses, text)
    /\ UNCHANGED <<where_clauses, having_clauses, qbPc, count_sql, count_args,
                   join_clauses, select_columns, query_limit, query_offset, dataVars>>

LimitOffset(l, o) ==
    /\ qbPc = "building"
    /\ query_limit = <<>> /\ query_offset = <<>>
    /\ query_limit' = <<Small(l)>> /\ query_offset' = <<Small(o)>>
    /\ UNCHANGED <<where_clauses, having_clauses, qbPc, count_sql, count_args,
                   join_clauses, select_columns, order_clauses, dataVars>>

NoOriginal == [select |-> <<>>, order |-> <<>>]

\* Pagination::paginate / paginate_as up to the count query: the projection
\* and ordering are saved, the projection becomes COUNT(*), ordering, LIMIT
\* and OFFSET are cleared, to_sql() renders the count query and the WHERE
\* and HAVING closures are called again to bind its arguments.
PaginateCount ==
    /\ qbPc = "building"
    /\ original' = [select |-> select_columns, order |-> order_clauses]
    /\ select_columns' = <<"COUNT(*)">>
    /\ order_clauses' = <<>>
    /\ query_limit' = <<>> /\ query_offset' = <<>>
    /\ count_sql' = ToSql([Query EXCEPT !.select_columns = <<"COUNT(*)">>,
                                         !.order_clauses = <<>>,
                                         !.limit = <<>>, !.offset = <<>>], driver)
    /\ count_args' = BindCountArgs(where_clauses, having_clauses, driver)
    /\ qbPc' = "counted"
    /\ UNCHANGED <<where_clauses, having_clauses, join_clauses, data_sql, data_args>>

\* The rest of paginate / paginate_as: the count query is executed; the
\* projection and ordering are restored, LIMIT and OFFSET set from the
\* Pagination, and scan / scan_as renders and binds the data query.
PaginateData(countOk) ==
    /\ qbPc = "counted"
    /\ IF ~countOk
       THEN /\ qbPc' = "failed"
            /\ UNCHANGED <<stVars, dataVars>>
       ELSE IF MulOverflows(pagination.page, pagination.limit) /\ overflow_checks
       THEN /\ qbPc' = "panicked"
            /\ select_columns' = original.select
            /\ order_clauses' = original.order
            /\ query_limit' = <<Small(pagination.limit)>>
            /\ UNCHANGED <<join_clauses, query_offset, dataVars>>
       ELSE LET q == [Query EXCEPT
                        !.select_columns = original.select,
                        !.order_clauses = original.order,
                        !.limit = <<Small(pagination.limit)>>,
                        !.offset = <<WrappingMul(pagination.page, pagination.limit)>>]
            IN  /\ qbPc' = "scanned"
                /\ select_columns' = q.select_columns
                /\ order_clauses' = q.order_clauses
                /\ query_limit' = q.limit
                /\ query_offset' = q.offset
                /\ data_sql' = ToSql(q, driver)
                /\ data_args' = ScanArgs(q, driver)
                /\ UNCHANGED <<join_clauses, original>>
    /\ UNCHANGED <<where_clauses, having_clauses, count_sql, count_args>>

\* The inputs of the builder calls.
JoinEntries == {Join("join", 0), Join("raw", 2)}
PagedClauses ==
    {Clause("AND", "leaf", <<1>>, <<>>), Clause("AND", "between", <<1, 2>>, <<>>),
     Clause("OR", "group", <<>>, <<Clause("AND", "leaf", <<2>>, <<>>),
                                   Clause("OR", "leaf", <<1>>, <<>>)>>)}

----------------------------------------------------------------------------
(* database.rs, transaction.rs: the two Connection implementations, RawQuery *)
(* and the terminals of the query builder, over the rows of one table        *)

MaxRowIds   == 2   \* distinct primary keys
MaxRowCalls == 3   \* calls made through the connection

RowIds == 1..MaxRowIds

\* The sqlx method each Connection method awaits, on the pool (Database) and on
\* the open transaction (Transaction).
SqlxMethod_OneAsOptional(kind, method) ==
    IF method = "fetch_one" THEN "fetch_optional" ELSE method
SqlxMethod(kind, method) == method

\* What the sqlx method returns for the rows the query matches, in order.  An
\* Option is a sequence of at most one row.
SqlxResult(method, matched) ==
    CASE method = "fetch_one" ->
            IF matched = <<>> THEN [res |-> "RowNotFound", rows |-> <<>>]
            ELSE [res |-> "Ok", rows |-> <<matched[1]>>]
      [] method = "fetch_optional" ->
            [res |-> "Ok", rows |-> IF matched = <<>> THEN <<>> ELSE <<matched[1]>>]
      [] OTHER -> [res |-> "Ok", rows |-> matched]

\* Connection::{fetch_all, fetch_one, fetch_optional} of Database and of
\* Transaction; envOk: the backend is reachable and executes the query.
ConnResult(kind, method, matched, envOk) ==
    IF kind = "tx" /\ ~AsMutIsSome(tx)
    THEN [res |-> TransactionClosedError, rows |-> <<>>]
    ELSE IF ~envOk THEN [res |-> "DbErr", rows |-> <<>>]
    ELSE SqlxResult(SqlxMethod(kind, method), matched)

\* RawQuery::{fetch_all, fetch_one, fetch_optional}: the Connection method
\* each calls; the error is returned with `?`.
RawMethod(terminal) ==
    CASE terminal = "raw.fetch_one"      -> "fetch_one"
      [] terminal = "raw.fetch_optional" -> "fetch_optional"
      [] OTHER                           -> "fetch_all"

\* The builder terminals: first and scalar require exactly one row, scan
\* materializes every row.
BuilderMethod(terminal) ==
    IF terminal \in {"first", "scalar"} THEN "fetch_one" ELSE "fetch_all"

ConnMethods == {"fetch_all", "fetch_one", "fetch_optional"}
RawTerminals == {"raw.fetch_all", "raw.fetch_one", "raw.fetch_optional"}
BuilderTerminals == {"first", "scalar", "scan"}

MethodOf(what) ==
    IF what \in ConnMethods THEN what
    ELSE IF what \in RawTerminals THEN RawMethod(what)
    ELSE BuilderMethod(what)

\* The rows with primary key v (every row when v = 0), in key order.
RECURSIVE Ascending(_)
Ascending(S) ==
    IF S = {} THEN <<>>
    ELSE LET m == CHOOSE x \in S : \A y \in S : x <= y
         IN  <<m>> \o Ascending(S \ {m})

Matched(v) == Ascending({r \in table_rows : v = 0 \/ r = v})

NoCall == [what |-> "none", input |-> <<>>, matched |-> <<>>, env |-> TRUE,
           res |-> "none", rows |-> <<>>, sent |-> 0, rowsBefore |-> {}]

\* A fetch through the connection, directly, through RawQuery or through a
\* builder terminal, with a filter on the primary key.
Fetch(what, v, envOk) ==
    /\ n_calls < MaxRowCalls
    /\ LET r == ConnResult(conn_kind, MethodOf(what), Matched(v), envOk)
       IN  last_call' = [what |-> what, input |-> <<v>>, matched |-> Matched(v),
                         env |-> envOk, res |-> r.res, rows |-> r.rows,
                         sent |-> 1, rowsBefore |-> table_rows]
    /\ n_calls' = n_calls + 1
    /\ UNCHANGED <<table_rows, conn_kind>>

\* batch_insert(values): the statements it sends.  One multi-row INSERT; none
\* for an empty list.
BatchInsertStatements_AlwaysSends(values) == <<[kind |-> "INSERT", values |-> values]>>
BatchInsertStatements(values) ==
    IF values = <<>> THEN <<>> ELSE <<[kind |-> "INSERT", values |-> values]>>

\* The backend executes a multi-row INSERT: at least one row, no primary key
\* twice.
InsertAccepted(values) ==
    /\ values # <<>>
    /\ \A i \in 1..Len(values) : values[i] \notin table_rows
    /\ \A i, j \in 1..Len(values) : i # j => values[i] # values[j]

BatchInsert(values, envOk) ==
    /\ n_calls < MaxRowCalls
    /\ LET stmts == BatchInsertStatements(values)
           ok == stmts = <<>> \/ (envOk /\ InsertAccepted(stmts[1].values))
       IN  /\ table_rows' = IF stmts # <<>> /\ ok
                            THEN table_rows \cup {values[i] : i \in 1..Len(values)}
                            ELSE table_rows
           /\ last_call' = [what |-> "batch_insert", input |-> values,
                            matched |-> <<>>, env |-> envOk,
                            res |-> IF ok THEN "Ok" ELSE "Err", rows |-> <<>>,
                            sent |-> Len(stmts), rowsBefore |-> table_rows]
    /\ n_calls' = n_calls + 1
    /\ UNCHANGED conn_kind

BatchValues == {<<>>} \cup {<<r>> : r \in RowIds} \cup {<<r, q>> : r \in RowIds, q \in RowIds}

----------------------------------------------------------------------------
(* derive_anyrow.rs, derive_enum.rs: by-name decoding of a row into a struct  *)
(* deriving FromAnyRow                                                        *)

\* The struct decoded: a plain field, an enum field, a nullable enum field and
\* a DateTime field (enum_test.rs, alias_test.rs).
DtoTable == "enum_user"
Fields == << [name |-> "name",          kind |-> "std",      nullable |-> FALSE],
             [name |-> "role",          kind |-> "enum",     nullable |-> FALSE],
             [name |-> "optional_role", kind |-> "enum",     nullable |-> TRUE],
             [name |-> "created_at",    kind |-> "datetime", nullable |-> FALSE] >>

\* format!("{}__{}", table_name, column_name)
AliasName(f) == <<DtoTable, "__", f.name>>
ColumnName(f) == <<f.name>>
Labels == {AliasName(Fields[i]) : i \in 1..Len(Fields)} \cup
          {ColumnName(Fields[i]) : i \in 1..Len(Fields)}

\* A cell: no such column, SQL NULL, a value of the field's type (for enum and
\* DateTime fields: a string that parses), or a value that is not.
Cells == {"absent", "null", "good", "bad"}

Error(kind, column) == [kind |-> kind, column |-> column]
NoError == Error("none", <<>>)
Got(v) == [ok |-> TRUE, val |-> v, err |-> NoError]
Failed(e) == [ok |-> FALSE, val |-> "none", err |-> e]

\* row.try_get::<T, _>(label): ColumnNotFound for a missing column,
\* ColumnDecode { index: label } when the cell does not decode as T.  Strings
\* decode as String whatever they hold; NULL decodes only as an Option.
TryGet(label, optional, asString) ==
    CASE row[label] = "absent" -> Failed(Error("ColumnNotFound", label))
      [] row[label] = "null" ->
            IF optional THEN Got("None") ELSE Failed(Error("ColumnDecode", label))
      [] row[label] = "bad" /\ ~asString -> Failed(Error("ColumnDecode", label))
      [] OTHER -> Got(row[label])

\* first.or_else(|_| second)
OrElse_NoFallback(first, second) == first
OrElse(first, second) == IF first.ok THEN first ELSE second

\* s.parse(): FromStr of the enum (a variant name in snake case, else
\* Err("Unknown variant: ..")), of DateTime<Utc>.
Parses(s) == s = "good"

\* The statements generated for one field.
DecodeField(f) ==
    LET asString == f.kind \in {"enum", "datetime"}
        optional == f.kind = "enum" /\ f.nullable
        got == OrElse(TryGet(AliasName(f), optional, asString),
                      TryGet(ColumnName(f), optional, asString))
    IN  IF ~got.ok
        THEN (IF f.kind = "datetime"
              THEN Failed(Error("ColumnDecode", ColumnName(f)))
              ELSE got)
        ELSE IF ~asString \/ got.val = "None" THEN got
        ELSE IF Parses(got.val) THEN got
        ELSE Failed(Error("Decode", <<>>))

\* from_any_row: the fields in declaration order, returning the first error.
RECURSIVE FromAnyRow(_, _)
FromAnyRow(i, done) ==
    IF i > Len(Fields) THEN [fields |-> done, res |-> "Ok", err |-> NoError]
    ELSE LET r == DecodeField(Fields[i])
         IN  IF r.ok THEN FromAnyRow(i + 1, Append(done, r.val))
             ELSE [fields |-> done, res |-> "Err", err |-> r.err]

NotDecoded == [fields |-> <<>>, res |-> "none", err |-> NoError]

DecodeRow ==
    /\ decoded = NotDecoded
    /\ decoded' = FromAnyRow(1, <<>>)
    /\ UNCHANGED row

----------------------------------------------------------------------------
(* database.rs: DatabaseBuilder::connect *)

\* str::starts_with
StartsWith(s, prefix) ==
    Len(s) >= Len(prefix) /\ SubSeq(s, 1, Len(prefix)) = prefix

Postgres == <<"p", "o", "s", "t", "g", "r", "e", "s">>
MySQL == <<"m", "y", "s", "q", "l">>

\* let driver = if url.starts_with("postgres") { .. } else if .. { .. } else { .. }
DriverOf_NoDefault(u) ==
    IF StartsWith(u, MySQL) THEN "MySQL" ELSE "Postgres"
DriverOf(u) ==
    IF StartsWith(u, Postgres) THEN "Postgres"
    ELSE IF StartsWith(u, MySQL) THEN "MySQL"
    ELSE "SQLite"

NotConnected == [res |-> "none", driver |-> "none"]

\* AnyPoolOptions::connect(url).await? comes first: when the pool cannot be
\* opened no Database is built.
Connect(poolOk) ==
    /\ database = NotConnected
    /\ database' = IF poolOk THEN [res |-> "Ok", driver |-> DriverOf(url)]
                   ELSE [res |-> "Err", driver |-> "none"]
    /\ UNCHANGED url

\* Connection strings: the schemes sqlx knows, their look-alikes, and every
\* prefix of each.
SampleUrls ==
    { <<"p","o","s","t","g","r","e","s",":","/","/","h">>,
      <<"p","o","s","t","g","r","e","s","q","l",":","/","/","h">>,
      <<"p","o","s","t","g","r","e","S",":","/","/","h">>,
      <<"P","o","s","t","g","r","e","s",":","/","/","h">>,
      <<"m","y","s","q","l",":","/","/","h">>,
      <<"m","y","s","q","L",":","/","/","h">>,
      <<"m","a","r","i","a","d","b",":","/","/","h">>,
      <<"s","q","l","i","t","e",":",":","m","e","m","o","r","y",":">>,
      <<"s","q","l","i","t","e",":","m","y","s","q","l",".","d","b">>,
      <<" ","p","o","s","t","g","r","e","s",":","/","/","h">> }
Urls == UNION {{SubSeq(u, 1, n) : n \in 0..Len(u)} : u \in SampleUrls}

----------------------------------------------------------------------------
(* Specifications *)

TxIdle ==
    /\ tx = "Some" /\ mutexOwner = 0 /\ mutexWaiters = <<>>
    /\ pc = [p \in Clones |-> "idle"] /\ op = [p \in Clones |-> "none"]
    /\ res = [p \in Clones |-> "none"] /\ calls = [p \in Clones |-> 0]
    /\ sent = [p \in Clones |-> FALSE]
    /\ closedAtCall = [p \in Clones |-> FALSE]
    /\ finishedAtCall = [p \in Clones |-> FALSE]
    /\ takes = <<>> /\ finished = <<>>

MigIdle ==
    /\ tasks = <<>> /\ fk_task = <<>>
    /\ runPc = "reg" /\ runIdx = 0 /\ runRes = "none" /\ events = <<>>
    /\ firstRun = NoFirstRun

QbIdle ==
    /\ where_clauses = <<>> /\ having_clauses = <<>>
    /\ qbPc = "building" /\ count_sql = <<>> /\ count_args = <<>>
    /\ join_clauses = <<>> /\ select_columns = <<>> /\ order_clauses = <<>>
    /\ query_limit = <<>> /\ query_offset = <<>>
    /\ original = NoOriginal /\ data_sql = <<>> /\ data_args = <<>>

PagIdle ==
    /\ pagination = [page |-> Small(0), limit |-> 10, max_limit |-> 100]
    /\ built = [ctor |-> "new", page |-> Small(0), limit |-> 10, max_limit |-> 0]
    /\ total_rows = Small(0) /\ overflow_checks = FALSE /\ pages = {}
    /\ applied = NotApplied

RowIdle ==
    /\ table_rows = {} /\ conn_kind = "pool" /\ n_calls = 0 /\ last_call = NoCall

DecIdle ==
    /\ row = [l \in Labels |-> "absent"] /\ decoded = NotDecoded

ConIdle ==
    /\ url = <<>> /\ database = NotConnected

ExtIdle == PagIdle /\ RowIdle /\ DecIdle /\ ConIdle

DbIdle ==
    /\ driver = "SQLite"
    /\ db = [t \in TableNames |-> AbsentTable]
    /\ contract = NoContract
    /\ log = <<>> /\ dbBefore = db /\ results = <<>>

\* Clones of one transaction handle.
InitTx == TxInit /\ DbIdle /\ MigIdle /\ QbIdle /\ ExtIdle
NextTx == TxNext /\ UNCHANGED <<dbVars, migVars, qbVars, extVars>>
SpecTx == InitTx /\ [][NextTx]_vars

\* The same clones under fair scheduling, with a backend that always
\* responds: a call that can take its next step eventually takes it.  Whether
\* a clone makes another call is up to the caller.
Step(p) ==
    /\ \/ Lock(p) \/ ConnGuard(p) \/ FinishGuard(p)
       \/ \E r \in BackendResults(op[p]) : BackendReturn(p, r)
    /\ UNCHANGED <<dbVars, migVars, qbVars, extVars>>

RECURSIVE CallsMade(_, _)
CallsMade(c, n) == IF n = 0 THEN 0 ELSE c[n] + CallsMade(c, n - 1)

NextTxFair == NextTx /\ CallsMade(calls', NumClones) <= MaxFairCalls

SpecTxFair == InitTx /\ [][NextTxFair]_vars /\ \A p \in Clones : WF_vars(Step(p))

\* The application brings the schema up either with the migrator over the
\* registered models or with sync_table calls.
InitMig ==
    /\ TxIdle /\ MigIdle /\ QbIdle /\ ExtIdle
    /\ driver \in Drivers
    /\ db \in [TableNames -> {AbsentTable, LegacyTable}]
    /\ db["item"] = AbsentTable
    /\ contract = NoContract
    /\ log = <<>> /\ dbBefore = db /\ results = <<>>

NextMig ==
    /\ \/ \E name \in ModelNames : results = <<>> /\ Register(name)
       \/ results = <<>> /\ RunCall
       \/ \E failAt \in 0..4 : RunCreateTask(failAt)
       \/ \E fails \in SUBSET (1..3) : RunFkTask(fails)
       \/ RunAgain
       \/ \E name \in ModelNames :
             \E failAt \in SyncPositions(ModelOf(name)) :
                runPc = "reg" /\ tasks = <<>> /\ SyncCall(ModelOf(name), failAt)
    /\ UNCHANGED <<txVars, qbVars, extVars>>

SpecMig == InitMig /\ [][NextMig]_vars

\* sync_table called repeatedly with one contract on every prior schema.
InitSync ==
    /\ TxIdle /\ MigIdle /\ QbIdle /\ ExtIdle
    /\ driver \in Drivers
    /\ contract \in SyncContracts
    /\ \E prior \in PriorTables(contract) :
          db = [t \in TableNames |-> IF t = "item" THEN prior ELSE AbsentTable]
    /\ log = <<>> /\ dbBefore = db /\ results = <<>>

NextSync ==
    /\ \E failAt \in SyncPositions(contract) : SyncCall(contract, failAt)
    /\ UNCHANGED <<txVars, qbVars, extVars>>

SpecSync == InitSync /\ [][NextSync]_vars

\* sync_table with a model whose second field has any of the field types.
InitTypes ==
    /\ TxIdle /\ MigIdle /\ QbIdle /\ ExtIdle
    /\ driver \in Drivers
    /\ contract \in TypedContracts
    /\ \E prior \in PriorTables(contract) :
          db = [t \in TableNames |-> IF t = "item" THEN prior ELSE AbsentTable]
    /\ log = <<>> /\ dbBefore = db /\ results = <<>>

NextTypes ==
    /\ \E failAt \in SyncPositions(contract) : SyncCall(contract, failAt)
    /\ UNCHANGED <<txVars, qbVars, extVars>>

SpecTypes == InitTypes /\ [][NextTypes]_vars


\* One query builder: filter calls, then paginate builds its count query.
InitQB ==
    /\ TxIdle /\ MigIdle /\ QbIdle /\ ExtIdle
    /\ driver \in Drivers
    /\ db = [t \in TableNames |-> AbsentTable]
    /\ contract = NoContract
    /\ log = <<>> /\ dbBefore = db /\ results = <<>>

NextQB ==
    /\ \/ \E c \in LeafClauses : Filter(c)
       \/ \E c \in GroupClauses : OrGroup(c)
       \/ \E v \in FilterValues : Having(v)
       \/ PaginateCount
    /\ UNCHANGED <<txVars, dbVars, migVars, extVars>>

SpecQB == InitQB /\ [][NextQB]_vars


\* Pagination values built by the two constructors.
InitNew == TxIdle /\ DbIdle /\ MigIdle /\ QbIdle /\ ExtIdle

NextNew ==
    /\ \/ \E page \in PageValues, limit \in LimitValues, max_limit \in MaxLimitValues :
             NewWithLimitCall(page, limit, max_limit)
       \/ \E page \in PageValues, limit \in LimitValues : NewCall(page, limit)
    /\ UNCHANGED <<txVars, dbVars, migVars, qbVars, rowVars, decVars, conVars>>

SpecNew == InitNew /\ [][NextNew]_vars

\* One query over a fixed ordered result, paginated page by page; both build
\* profiles.
InitPag ==
    /\ TxIdle /\ DbIdle /\ MigIdle /\ QbIdle
    /\ pagination = [page |-> Small(0), limit |-> 10, max_limit |-> 100]
    /\ built = [ctor |-> "new", page |-> Small(0), limit |-> 10, max_limit |-> 0]
    /\ total_rows \in TotalRowValues
    /\ overflow_checks \in BOOLEAN
    /\ pages = {} /\ applied = NotApplied
    /\ RowIdle /\ DecIdle /\ ConIdle

NextPag ==
    /\ \/ \E page \in PageValues, limit \in PageSizes : NewCall(page, limit)
       \/ \E method \in {"paginate", "paginate_as"}, fail \in {"none", "count", "data"} :
             /\ Cardinality(pages) < MaxPaginateCalls
             /\ F64Exact(AsF64(total_rows), pagination.limit)
             /\ Paginate(method, fail)
    /\ UNCHANGED <<txVars, dbVars, migVars, qbVars, rowVars, decVars, conVars>>

SpecPag == InitPag /\ [][NextPag]_vars

\* Pagination values obtained in every way, then applied to a query or
\* paginated.
InitLimit ==
    /\ TxIdle /\ DbIdle /\ MigIdle /\ QbIdle /\ RowIdle /\ DecIdle /\ ConIdle
    /\ pagination = [page |-> Small(0), limit |-> 10, max_limit |-> 100]
    /\ built = [ctor |-> "new", page |-> Small(0), limit |-> 10, max_limit |-> 0]
    /\ total_rows = Small(MaxRows)
    /\ overflow_checks \in BOOLEAN
    /\ pages = {} /\ applied = NotApplied

NextLimit ==
    /\ \/ \E page \in LimitPages, limit \in LimitValues, max_limit \in MaxLimitValues :
             NewWithLimitCall(page, limit, max_limit)
       \/ \E page \in LimitPages, limit \in LimitValues : NewCall(page, limit)
       \/ \E page \in LimitPages, limit \in LimitValues, max_limit \in MaxLimitValues :
             FromFields(page, limit, max_limit)
       \/ Apply
       \/ \E method \in {"paginate", "paginate_as"} :
             /\ pages = {}
             /\ F64Exact(AsF64(total_rows), pagination.limit)
             /\ Paginate(method, "none")
    /\ UNCHANGED <<txVars, dbVars, migVars, qbVars, rowVars, decVars, conVars>>

SpecLimit == InitLimit /\ [][NextLimit]_vars


\* Rows inserted into one table and fetched through a pool or an open
\* transaction.
InitRows ==
    /\ TxIdle /\ DbIdle /\ MigIdle /\ QbIdle /\ PagIdle /\ DecIdle /\ ConIdle
    /\ table_rows = {} /\ conn_kind \in {"pool", "tx"}
    /\ n_calls = 0 /\ last_call = NoCall

NextRows ==
    /\ \/ \E what \in ConnMethods \cup RawTerminals \cup BuilderTerminals,
             v \in {0} \cup RowIds, envOk \in BOOLEAN : Fetch(what, v, envOk)
       \/ \E values \in BatchValues, envOk \in BOOLEAN : BatchInsert(values, envOk)
    /\ UNCHANGED <<txVars, dbVars, migVars, qbVars, pagVars, decVars, conVars>>

SpecRows == InitRows /\ [][NextRows]_vars


\* One row, with any cell under each label, decoded by name.
InitDecode ==
    /\ TxIdle /\ DbIdle /\ MigIdle /\ QbIdle /\ PagIdle /\ RowIdle /\ ConIdle
    /\ row \in [Labels -> Cells]
    /\ decoded = NotDecoded

NextDecode ==
    /\ DecodeRow
    /\ UNCHANGED <<txVars, dbVars, migVars, qbVars, pagVars, rowVars, conVars>>

SpecDecode == InitDecode /\ [][NextDecode]_vars


\* One connection string handed to connect.
InitConn ==
    /\ TxIdle /\ DbIdle /\ MigIdle /\ QbIdle /\ PagIdle /\ RowIdle /\ DecIdle
    /\ url \in Urls
    /\ database = NotConnected

NextConn ==
    /\ \E poolOk \in BOOLEAN : Connect(poolOk)
    /\ UNCHANGED <<txVars, dbVars, migVars, qbVars, pagVars, rowVars, decVars>>

SpecConn == InitConn /\ [][NextConn]_vars


\* One builder with joins, projection, ordering and filters, paginated: the
\* count query and the data query of one paginate call.
InitQuery ==
    /\ TxIdle /\ MigIdle /\ QbIdle /\ RowIdle /\ DecIdle /\ ConIdle
    /\ driver \in Drivers
    /\ db = [t \in TableNames |-> AbsentTable]
    /\ contract = NoContract
    /\ log = <<>> /\ dbBefore = db /\ results = <<>>
    /\ pagination \in {New(page, 2) : page \in {Small(1), W(2048, 0)}}
    /\ built = [ctor |-> "new", page |-> pagination.page, limit |-> 2, max_limit |-> 0]
    /\ total_rows = Small(0) /\ overflow_checks \in BOOLEAN
    /\ pages = {} /\ applied = NotApplied

NextQuery ==
    /\ \/ \E j \in JoinEntries : JoinCall(j)
       \/ Select("u.name")
       \/ Order("u.name DESC")
       \/ LimitOffset(5, 7)
       \/ \E c \in PagedClauses : Filter(c)
       \/ \E v \in FilterValues : Having(v)
       \/ PaginateCount
       \/ \E countOk \in BOOLEAN : PaginateData(countOk)
    /\ UNCHANGED <<txVars, dbVars, migVars, extVars>>

SpecQuery == InitQuery /\ [][NextQuery]_vars

----------------------------------------------------------------------------
(* Claims about the transaction handle (checked under SpecTx) *)

\* C1: a Connection call (execute, fetch_all, fetch_one, fetch_optional) made
\* through any clone after commit or rollback has taken the handle sends
\* nothing to the backend and fails with the closed-transaction error.
C1_ClosedCallFailsWithoutSending ==
    \A p \in Clones :
        (op[p] \in ConnOps /\ closedAtCall[p]) =>
            /\ ~sent[p]
            /\ pc[p] # "backend"
            /\ (Returned(p) => res[p] = TransactionClosedError)

C1_Witness ==
    \E p \in Clones :
        /\ op[p] \in ConnOps /\ closedAtCall[p]
        /\ Returned(p) /\ res[p] = TransactionClosedError
        /\ takes # <<>>

\* C2: once a commit or rollback has completed on any clone, every further
\* operation on any clone, a second commit or rollback included, returns an
\* error (never a successful no-op).
C2_EveryCallAfterFinishRejected ==
    \A p \in Clones :
        (finishedAtCall[p] /\ Returned(p)) => res[p] \in ErrorResults

\* C9: over every interleaving of commit and rollback through the clones, the
\* backend transaction is finished at most once, by the first call that took
\* the handle, and the handle is empty in every state after it was taken.
C9_FinishedAtMostOnce ==
    /\ Len(takes) <= 1
    /\ Len(finished) <= 1
    /\ (takes # <<>> => tx = "None")
    /\ (finished # <<>> => finished[1] = takes[1])

C9_Witness ==
    /\ Len(finished) = 1
    /\ \E p \in Clones : p # finished[1] /\ op[p] \in FinishOps /\ Returned(p)

\* C10: never are two operations of clones of one handle inside their backend
\* call at once; a clone inside its backend call holds the mutex.
C10_OneOperationAtATime ==
    /\ Cardinality({p \in Clones : pc[p] = "backend"}) <= 1
    /\ \A p \in Clones : pc[p] \in {"guard", "backend"} => mutexOwner = p
    /\ \A p \in Clones : pc[p] = "wait" <=> (\E i \in 1..Len(mutexWaiters) : mutexWaiters[i] = p)

C10_Witness ==
    \E p, q \in Clones :
        /\ p # q
        /\ pc[p] = "backend"
        /\ pc[q] = "wait"

----------------------------------------------------------------------------
(* Claims about the migrator (checked under SpecMig) *)

\* The result of the operation the log belongs to.
OpResult == IF results # <<>> THEN results[Len(results)] ELSE runRes

\* C3: run() makes two full passes: when the foreign-key task of any
\* registration is awaited, the create-table task of every registration has
\* completed, whatever the number and order of the registrations.
C3_CreatesBeforeForeignKeys ==
    \A j \in 1..Len(events) :
        events[j].pass = "fk" =>
            \A i \in 1..Len(tasks) :
                \E k \in 1..(j - 1) :
                    /\ events[k].pass = "create"
                    /\ events[k].idx = i
                    /\ events[k].model = tasks[i]
                    /\ events[k].res = "Ok"

C3_Witness ==
    /\ runPc = "done" /\ runRes = "Ok"
    /\ Len(tasks) >= 2
    /\ tasks[1] = "Post" /\ tasks[2] = "User"
    /\ \E j \in 1..Len(events) : events[j].pass = "fk"

\* C7: a failing foreign-key statement is not propagated: assign_foreign_keys
\* returns Ok, still issues the statement of every other foreign-key column,
\* and run() returns Ok when every create-table task succeeded.
C7_ForeignKeyFailureSwallowed ==
    /\ \A j \in 1..Len(events) :
          events[j].pass = "fk" =>
             /\ events[j].res = "Ok"
             /\ driver # "SQLite" =>
                   Cardinality({i \in 1..Len(log) : log[i].task = <<"fk", events[j].idx>>})
                     = Cardinality(ForeignKeyColumns(ModelOf(events[j].model)))
    /\ (runPc = "done" /\ \A j \in 1..Len(events) : events[j].res = "Ok")
          => runRes = "Ok"

C7_Witness ==
    /\ runPc = "done" /\ runRes = "Ok"
    /\ \E i, j \in 1..Len(log) :
          /\ i < j
          /\ log[i].task[1] = "fk" /\ log[j].task = log[i].task
          /\ ~log[i].ok

\* C8: run() and sync_table never issue a DDL statement twice (within one
\* task), and the first failing statement other than a foreign-key attachment
\* is the last statement of the operation, which returns the error.
C8_NoRetryAbortOnFirstFailure ==
    /\ \A i \in 1..Len(log) :
          (~log[i].ok /\ log[i].stmt.kind # "ALTER_ADD_CONSTRAINT") =>
             (i = Len(log) /\ OpResult = "Err")
    /\ \A i, j \in 1..Len(log) :
          (/\ i < j
           /\ log[i].task = log[j].task
           /\ log[i].stmt.kind \in DdlKinds
           /\ log[i].stmt.kind = log[j].stmt.kind) => log[i].stmt # log[j].stmt

C8_Witness ==
    /\ runPc = "done" /\ runRes = "Err"
    /\ Len(events) < Len(tasks)
    /\ Len(log) >= 2
    /\ ~log[Len(log)].ok

----------------------------------------------------------------------------
(* Claims about sync_table (checked under SpecSync) *)

\* C4: a second sync_table call in succession with the same contract issues
\* no ALTER TABLE and no CREATE INDEX statement, for every contract and
\* whether or not the table existed before the first call.
C4_SecondSyncIssuesNothing ==
    (Len(results) >= 2 /\ results[Len(results) - 1] = "Ok") =>
        \A i \in 1..Len(log) : log[i].stmt.kind \notin AlterOrIndexKinds

\* C5: sync_table only adds: every table, column, index and constraint in the
\* database before the call is there after it, whether or not the contract
\* declares it.
C5_SyncTableAdditive ==
    results # <<>> =>
        \A t \in TableNames :
            /\ dbBefore[t].exists => db[t].exists
            /\ dbBefore[t].cols \subseteq db[t].cols
            /\ dbBefore[t].idx \subseteq db[t].idx
            /\ dbBefore[t].fks \subseteq db[t].fks

C5_Witness ==
    /\ results # <<>> /\ results[Len(results)] = "Ok"
    /\ dbBefore["item"].exists
    /\ "legacy" \in db["item"].cols /\ "legacy" \notin ContractColumnNames(contract)
    /\ <<"legacy", "index">> \in db["item"].idx
    /\ dbBefore["item"].cols # db["item"].cols
    /\ dbBefore["item"].idx # db["item"].idx

----------------------------------------------------------------------------
(* Claims about filter binding (checked under SpecQB) *)

Placeholders(sql) == SelectSeq(sql, LAMBDA tok : tok.t = "ph")

----------------------------------------------------------------------------
(* Claims about pagination (checked under SpecNew and SpecPag) *)

\* C11: new_with_limit(page, limit, max_limit) keeps limit when it is at most
\* max_limit and otherwise sets it to the fixed default 10 (not to max_limit);
\* page and max_limit are kept; new(page, limit) is new_with_limit with
\* max_limit = 100.
C11_LimitFallsBackToDefault ==
    LET mx == IF built.ctor = "new" THEN 100 ELSE built.max_limit
    IN  /\ pagination.page = built.page
        /\ pagination.max_limit = mx
        /\ pagination.limit = IF built.limit <= mx THEN built.limit ELSE 10

C11_Witness ==
    /\ built.ctor = "new_with_limit"
    /\ built.limit > built.max_limit
    /\ built.max_limit \notin {10, built.limit}
    /\ pagination.limit = 10

\* ceil(T / L), exactly.
CeilDiv(total, limit) ==
    IF total.hi = 0 THEN Small((total.lo + limit - 1) \div limit)
    ELSE W(total.hi \div limit, (total.lo + limit - 1) \div limit)

\* C12: for every total row count T >= 0 and page size L > 0, a successful
\* paginate / paginate_as reports total = T and total_pages = ceil(T / L).
C12_TotalAndTotalPages ==
    \A r \in pages :
        (r.res = "Ok" /\ r.limit > 0) =>
            /\ r.total = total_rows
            /\ r.total_pages = CeilDiv(total_rows, r.limit)

OkPage(p) == CHOOSE r \in pages : r.res = "Ok" /\ r.page = Small(p)

RECURSIVE SumOfLengths(_)
SumOfLengths(n) == IF n = 0 THEN 0 ELSE OkPage(n - 1).len + SumOfLengths(n - 1)

\* C13: for a fixed ordered result of T rows and a page size L > 0, page p
\* below total_pages returns the window of rows p*L+1 .. min(p*L+L, T), the
\* lengths of the pages 0 .. total_pages-1 sum to T, and every page index at
\* or beyond total_pages returns empty data.
C13_PagesAreConsecutiveWindows ==
    /\ \A r \in pages :
          (r.res # "Err" /\ r.limit > 0) =>
             /\ r.res = "Ok"
             /\ IF WLess(r.page, r.total_pages)
                THEN /\ r.first = W(r.page.hi * r.limit, r.page.lo * r.limit)
                     /\ r.len > 0
                     /\ r.len = RowsReturned(total_rows, r.first, r.limit)
                ELSE r.len = 0
    /\ \A r \in pages :
          (/\ r.res = "Ok" /\ r.limit > 0 /\ total_rows.hi = 0
           /\ \A p \in 0..(r.total_pages.lo - 1) :
                 \E q \in pages : q.res = "Ok" /\ q.page = Small(p))
          => SumOfLengths(r.total_pages.lo) = total_rows.lo


----------------------------------------------------------------------------
(* Claims about rows and connections (checked under SpecRows) *)

\* C14: batch_insert with an empty list of values sends no statement to the
\* connection, returns success, and leaves the rows of the table unchanged.
C14_EmptyBatchInsertIsNoOp ==
    (last_call.what = "batch_insert" /\ last_call.input = <<>>) =>
        /\ last_call.sent = 0
        /\ last_call.res = "Ok"
        /\ table_rows = last_call.rowsBefore

C14_Witness ==
    /\ last_call.what = "batch_insert" /\ last_call.input = <<>>
    /\ last_call.res = "Ok" /\ last_call.sent = 0
    /\ table_rows # {} /\ table_rows = last_call.rowsBefore

\* C15: for a query matching zero rows, through the pool and through an open
\* transaction, when the backend executes the query: fetch_one (and first,
\* scalar) fails with the not-found error (sqlx::Error::RowNotFound),
\* fetch_optional returns absent with success, fetch_all (and scan) returns
\* an empty sequence with success.
C15_ZeroRows ==
    (/\ last_call.what \in ConnMethods \cup RawTerminals \cup BuilderTerminals
     /\ last_call.matched = <<>> /\ last_call.env) =>
        /\ last_call.rows = <<>>
        /\ last_call.res =
              IF last_call.what \in {"fetch_one", "raw.fetch_one", "first", "scalar"}
              THEN "RowNotFound" ELSE "Ok"

C15_Witness ==
    /\ conn_kind = "tx" /\ table_rows # {}
    /\ last_call.what = "fetch_one" /\ last_call.matched = <<>> /\ last_call.env
    /\ last_call.res = "RowNotFound"


----------------------------------------------------------------------------
(* Further claims about sync_table (checked under SpecSync) *)

\* C16: after sync_table returns success, the table exists and has every
\* column the contract declares, whether the table was absent before (full
\* creation) or existed with only some of the declared columns (diff).
C16_SyncedTableHasContractColumns ==
    (results # <<>> /\ results[Len(results)] = "Ok") =>
        /\ db[ToSnakeCase(contract.table)].exists
        /\ ContractColumnNames(contract) \subseteq db[ToSnakeCase(contract.table)].cols

C16_Witness ==
    /\ Len(results) = 1 /\ results[1] = "Ok"
    /\ dbBefore["item"].exists
    /\ ContractColumnNames(contract) \cap dbBefore["item"].cols # {}
    /\ ~(ContractColumnNames(contract) \subseteq dbBefore["item"].cols)
    /\ ContractColumnNames(contract) \subseteq db["item"].cols


----------------------------------------------------------------------------
(* Further claims about the migrator (checked under SpecMig) *)

\* The schema after User and Post have been migrated on a database that had
\* neither table.
UserPostSchema(d, drv) ==
    [d EXCEPT
       !["user"] = [exists |-> TRUE, cols |-> {"id", "username", "email"},
                    idx |-> {AutoIndexName("user", "id"),
                             AutoIndexName("user", "username"),
                             IdxName("user", "email")},
                    fks |-> {}],
       !["post"] = [exists |-> TRUE, cols |-> {"id", "user_id", "title"},
                    idx |-> {AutoIndexName("post", "id")},
                    fks |-> IF drv = "SQLite" THEN {}
                            ELSE {FkName("post", "user", "user_id")}]]

\* C17: for two contracts where one references the other by foreign key
\* (Post.user_id -> User.id), on a database with neither table and a backend
\* that executes every statement, run() returns Ok and leaves both tables
\* existing for either registration order, with the same resulting schema.
C17_EitherOrderSameTables ==
    (/\ ~firstRun.done /\ runPc = "done"
     /\ tasks \in {<<"User", "Post">>, <<"Post", "User">>}
     /\ ~dbBefore["user"].exists /\ ~dbBefore["post"].exists
     /\ CleanRun) =>
        /\ runRes = "Ok"
        /\ db["user"].exists /\ db["post"].exists
        /\ db = UserPostSchema(dbBefore, driver)

C17_Witness ==
    /\ ~firstRun.done /\ runPc = "done" /\ runRes = "Ok"
    /\ tasks = <<"Post", "User">>
    /\ driver = "Postgres"
    /\ ~dbBefore["user"].exists /\ ~dbBefore["post"].exists
    /\ CleanRun
    /\ db["post"].fks = {FkName("post", "user", "user_id")}

----------------------------------------------------------------------------
(* Claims about decoding (checked under SpecDecode) *)

\* The cell a field is read from: the one under the qualified name unless
\* that lookup fails, then the one under the bare column name.
Resolves(label, f) ==
    /\ row[label] # "absent"
    /\ row[label] = "null" => (f.kind = "enum" /\ f.nullable)
    /\ row[label] = "bad" => f.kind \in {"enum", "datetime"}

CellOf(f) ==
    IF Resolves(AliasName(f), f) THEN row[AliasName(f)] ELSE row[ColumnName(f)]

Reached(i) == decoded.res # "none" /\ Len(decoded.fields) >= i - 1

\* C19: decoding an enum column: a nullable enum column holding NULL decodes
\* to the absent value and never to an error; a column holding a string that
\* is not a variant name yields a decode error that names that column.
C19_EnumDecode ==
    \A i \in 1..Len(Fields) :
        (Fields[i].kind = "enum" /\ Reached(i)) =>
            /\ (Fields[i].nullable /\ CellOf(Fields[i]) = "null") =>
                  /\ Len(decoded.fields) >= i
                  /\ decoded.fields[i] = "None"
            /\ (/\ CellOf(Fields[i]) = "bad"
                /\ \/ Resolves(AliasName(Fields[i]), Fields[i])
                   \/ Resolves(ColumnName(Fields[i]), Fields[i])) =>
                  /\ Len(decoded.fields) = i - 1
                  /\ decoded.res = "Err"
                  /\ decoded.err.kind \in {"Decode", "ColumnDecode"}
                  /\ decoded.err.column \in {AliasName(Fields[i]), ColumnName(Fields[i])}

\* C20 as stated: every field is looked up under the qualified name first
\* and then under the bare column name, and decoding of the field succeeds
\* whenever either lookup succeeds.
C20_DecodesWheneverFound ==
    \A i \in 1..Len(Fields) :
        Reached(i) =>
            LET f == Fields[i]
            IN  (Resolves(AliasName(f), f) \/ Resolves(ColumnName(f), f)) =>
                    /\ Len(decoded.fields) >= i
                    /\ decoded.fields[i] = (IF CellOf(f) = "null" THEN "None" ELSE CellOf(f))

\* C20, amended: every field is looked up under the qualified name first and,
\* if that lookup fails, under the bare column name; the field is read from
\* the first lookup that succeeds and decodes whenever either lookup succeeds
\* and the string read for an enum or DateTime field parses, so a row
\* labelled with bare names only (no alias) and a row labelled with qualified
\* names decode alike; a lookup error is returned only when both lookups fail.
C20_QualifiedThenBare ==
    \A i \in 1..Len(Fields) :
        Reached(i) =>
            LET f == Fields[i]
                either == Resolves(AliasName(f), f) \/ Resolves(ColumnName(f), f)
            IN  /\ (either /\ CellOf(f) # "bad") =>
                      /\ Len(decoded.fields) >= i
                      /\ decoded.fields[i] = (IF CellOf(f) = "null" THEN "None" ELSE CellOf(f))
                /\ (Len(decoded.fields) = i - 1 /\
                    decoded.err.kind \in {"ColumnNotFound", "ColumnDecode"}) => ~either

C20_Witness ==
    /\ decoded.res = "Ok"
    /\ \A i \in 1..Len(Fields) : row[AliasName(Fields[i])] = "absent"
    /\ \E i \in 1..Len(Fields) : decoded.fields[i] = "None"


----------------------------------------------------------------------------
(* Claims about connect (checked under SpecConn) *)

HasPrefix(name) ==
    Len(url) >= Len(name) /\ \A i \in 1..Len(name) : url[i] = name[i]

\* C21: a Database returned by connect(url) has the Postgres dialect when url
\* starts with "postgres", the MySQL dialect when it starts with "mysql", and
\* the SQLite dialect for every other url.
C21_DialectFromPrefix ==
    database.res = "Ok" =>
        /\ HasPrefix(Postgres) => database.driver = "Postgres"
        /\ HasPrefix(MySQL) => database.driver = "MySQL"
        /\ (~HasPrefix(Postgres) /\ ~HasPrefix(MySQL)) => database.driver = "SQLite"

C21_Witness ==
    /\ database.res = "Ok"
    /\ database.driver = "SQLite"
    /\ Len(url) >= 8 /\ url[1] = "P"


----------------------------------------------------------------------------
(* Further claims about foreign keys (checked under SpecMig) *)

\* C22: on the SQLite dialect assign_foreign_keys, and therefore pass 2 of
\* Migrator::run, issues no statement to the database, whatever foreign keys
\* the contract declares.
C22_SqliteSkipsForeignKeys ==
    driver = "SQLite" =>
        /\ \A i \in 1..Len(log) : log[i].task[1] # "fk"
        /\ \A i \in 1..Len(log) : log[i].stmt.kind # "ALTER_ADD_CONSTRAINT"

C22_Witness ==
    /\ driver = "SQLite"
    /\ runPc = "done" /\ runRes = "Ok"
    /\ \E j \in 1..Len(events) :
          /\ events[j].pass = "fk"
          /\ ForeignKeyColumns(ModelOf(events[j].model)) # {}


----------------------------------------------------------------------------
(* Claims about the page size (checked under SpecLimit) *)

\* C23: for every Pagination value, however it was obtained (new,
\* new_with_limit, or its public fields), the LIMIT that apply, paginate and
\* paginate_as put on the query is at most max_limit.
C23_LimitAtMostMaxLimit ==
    /\ applied.res = "Ok" => applied.limit <= applied.max_limit
    /\ \A r \in pages : r.res = "Ok" => r.limit <= r.max_limit


----------------------------------------------------------------------------
(* Claims about the two queries of paginate (checked under SpecQuery) *)

Kind(sql, kinds) == SelectSeq(sql, LAMBDA tok : tok.t \in kinds)

RawJoins == SelectSeq(join_clauses, LAMBDA j : j.kind = "raw")

\* C24: for every builder state passed to paginate or paginate_as, including
\* one with a join_raw entry that carries a bound value, the count query has
\* as many bound arguments as placeholders, and each placeholder receives the
\* value the builder's own terminal operations would bind to it.
C24_CountArgsMatchPlaceholders ==
    qbPc \in {"counted", "scanned"} =>
        LET phs == Kind(count_sql, {"ph"})
        IN  /\ Len(phs) = Len(count_args)
            /\ count_args = ScanArgs(Query, driver)
            /\ \A k \in 1..Len(phs) : phs[k].v = count_args[k]

\* C27: the count query is rendered with projection COUNT(*) and no ORDER BY,
\* LIMIT or OFFSET; the data query uses the builder's original projection and
\* ordering with limit = page size and offset = page * page size; the join,
\* WHERE, GROUP BY and HAVING part is the same in both queries and the state
\* it is rendered from is not changed by the count phase.
C27_CountAndDataQueries ==
    /\ qbPc \in {"counted", "scanned"} =>
          /\ Kind(count_sql, {"select"}) = Entries("select", <<"COUNT(*)">>)
          /\ Kind(count_sql, {"order", "limit", "offset"}) = <<>>
          /\ Kind(count_sql, {"text", "ph"})
               = Kind(ToSql([Query EXCEPT !.limit = <<>>, !.offset = <<>>], driver),
                      {"text", "ph"})
    /\ qbPc = "scanned" =>
          /\ Kind(data_sql, {"select"})
               = Entries("select", IF original.select = <<>> THEN <<"*">>
                                   ELSE original.select)
          /\ Kind(data_sql, {"order"}) = Entries("order", original.order)
          /\ Kind(data_sql, {"limit"}) = <<Number("limit", Small(pagination.limit))>>
          /\ Kind(data_sql, {"offset"})
               = <<Number("offset", W(pagination.page.hi * pagination.limit,
                                      pagination.page.lo * pagination.limit))>>
          /\ Kind(data_sql, {"text", "ph"}) = Kind(count_sql, {"text", "ph"})

\* C28: within one paginate call the arguments bound to the count query and
\* those bound to the data query contain the same WHERE and HAVING values in
\* the same order, WHERE values before HAVING values.
C28_SameFilterArguments ==
    qbPc = "scanned" =>
        /\ count_args = WalkValues(where_clauses, 1) \o WalkValues(having_clauses, 1)
        /\ Len(data_args) = Len(RawJoins) + Len(count_args)
        /\ SubSeq(data_args, Len(RawJoins) + 1, Len(data_args)) = count_args

C28_Witness ==
    /\ qbPc = "scanned"
    /\ RawJoins # <<>>
    /\ Len(WalkValues(where_clauses, 1)) >= 3
    /\ having_clauses # <<>>
    /\ WalkValues(having_clauses, 1) # SubSeq(WalkValues(where_clauses, 1), 1, 1)


----------------------------------------------------------------------------
(* Claims about the diff path of sync_table (checked under SpecSync) *)

\* C25: after sync_table returns success on a table that already existed, an
\* index named unique_<table>_<column> exists for every declared unique
\* column and an index named idx_<table>_<column> exists for every declared
\* indexed, non-unique column.
C25_DeclaredIndexesExist ==
    (results # <<>> /\ results[Len(results)] = "Ok" /\ dbBefore["item"].exists) =>
        \A i \in 1..Len(contract.columns) :
            LET col == contract.columns[i]
            IN  /\ col.unique => UniqName("item", ColNameClean(col)) \in db["item"].idx
                /\ (col.index /\ ~col.unique) =>
                      IdxName("item", ColNameClean(col)) \in db["item"].idx

C25_Witness ==
    /\ Len(results) = 1 /\ results[1] = "Ok"
    /\ dbBefore["item"].exists
    /\ \E i, j \in 1..Len(contract.columns) :
          /\ contract.columns[i].unique
          /\ contract.columns[j].index /\ ~contract.columns[j].unique
          /\ UniqName("item", ColNameClean(contract.columns[i])) \notin dbBefore["item"].idx
          /\ IdxName("item", ColNameClean(contract.columns[j])) \notin dbBefore["item"].idx
          /\ UniqName("item", ColNameClean(contract.columns[i])) \in db["item"].idx
          /\ IdxName("item", ColNameClean(contract.columns[j])) \in db["item"].idx


----------------------------------------------------------------------------
(* Claims about added columns (checked under SpecTypes) *)

NumericSqlTypes == {"INTEGER", "INT", "BIGINT", "SMALLINT", "DOUBLE PRECISION",
                    "REAL", "NUMERIC"}
BooleanSqlTypes == {"BOOLEAN", "BOOL"}

ColumnNamed(c) ==
    contract.columns[CHOOSE i \in 1..Len(contract.columns) :
                        ColNameClean(contract.columns[i]) = c]

\* C26: when sync_table adds a missing non-nullable column, the ALTER TABLE
\* ADD COLUMN carries DEFAULT 0 for every numeric SQL type, DEFAULT FALSE for
\* every boolean type and DEFAULT '' for every other type; when the missing
\* column is nullable the statement carries no DEFAULT.
C26_DefaultByTypeCategory ==
    \A k \in 1..Len(log) :
        log[k].stmt.kind = "ALTER_ADD_COLUMN" =>
            LET col == ColumnNamed(log[k].stmt.cols[1])
            IN  log[k].stmt.name[1] =
                  (IF col.is_nullable THEN "none"
                   ELSE IF col.sql_type \in NumericSqlTypes THEN "0"
                   ELSE IF col.sql_type \in BooleanSqlTypes THEN "FALSE"
                   ELSE "''")


----------------------------------------------------------------------------
(* Claims about registration (checked under SpecMig) *)

\* C29: register::<T>() performs no database I/O: each call only appends one
\* create-table task and one foreign-key task to the migrator's queues, so
\* after n calls both queues hold n tasks in registration order and the
\* database is untouched until run().
C29_RegisterOnlyQueues ==
    /\ [](( runPc = "reg" /\ results = <<>> ) =>
            /\ log = <<>> /\ db = dbBefore
            /\ tasks = fk_task)
    /\ [][ (tasks' # tasks \/ fk_task' # fk_task) =>
            /\ \E name \in ModelNames :
                  /\ tasks' = Append(tasks, name)
                  /\ fk_task' = Append(fk_task, name)
            /\ db' = db /\ log' = log ]_vars

C29_Witness ==
    /\ runPc = "reg" /\ results = <<>>
    /\ Len(tasks) >= 2 /\ tasks[1] # tasks[2]
    /\ Len(fk_task) = Len(tasks)
    /\ log = <<>> /\ db = dbBefore


----------------------------------------------------------------------------
(* Claims about progress of the transaction handle (checked under SpecTxFair) *)

InCall(p) == pc[p] \in {"lock", "wait", "guard", "backend"}

\* C30: under fair scheduling and a backend that always responds, every
\* operation issued through any clone of a transaction handle eventually
\* acquires the lock, completes and releases it; no interleaving of
\* concurrent callers on the same transaction deadlocks.
C30_EveryOperationCompletes ==
    /\ \A p \in Clones : InCall(p) ~> (Returned(p) /\ res[p] # "pending")
    /\ [](\A p \in Clones :
            /\ pc[p] \in {"guard", "backend"} => mutexOwner = p
            /\ Returned(p) => (mutexOwner # p /\ p \notin Range(mutexWaiters)))

C30_Witness ==
    /\ \A p \in Clones : Returned(p)
    /\ CallsMade(calls, NumClones) = MaxFairCalls
    /\ mutexOwner = 0 /\ mutexWaiters = <<>>
    /\ Len(finished) >= 1
    /\ \E p \in Clones : res[p] = TransactionClosedError

====
